---- MODULE Spec2Model ----
(***************************************************************************)
(* RTEmsg: the format-definition compiler (format-ID allocator, enum table *)
(* and per-line error recovery) and the exit path of main().               *)
(*                                                                         *)
(* A directive handler of the C code is a sequence of assignments that a   *)
(* catch_parsing_error() call cuts short with a longjmp.  Each handler is  *)
(* written here as an operator from a parser state (a record holding the   *)
(* globals and the parse handle) to the parser state it leaves behind; the *)
(* field "jumped" says whether the handler left through the longjmp.       *)
(***************************************************************************)
EXTENDS Integers, Sequences, FiniteSets, TLC

(***************************************************************************)
(* Bounds of the model.                                                    *)
(***************************************************************************)
\* -N=K command line parameter (9..16 in the program), scaled down.
FmtIdBits == 5
\* Number of lines of the format definition file that are parsed.
MaxLines == 3
\* NUMBER_OF_FILTER_BITS is 32 in the program; scaled down.
NUMBER_OF_FILTER_BITS == 1
\* Non-filter entries of the enum table (MAX_ENUMS - NUMBER_OF_FILTER_BITS,
\* 1968 in the program), scaled down.
MaxOtherEnums == 2
\* MAX_ERRORS_REPORTED is 20 in the program; scaled down.
MAX_ERRORS_REPORTED == 2
\* Words of binary data in the buffer that is decoded.
MaxWords == 4
\* Errors that the decoding of one buffer reports at most.
MaxDecodeErrors == 3
\* Number of fatal error codes, FIRST_FATAL_ERROR .. TOTAL_ERRORS - 1.
NumFatalErrors == 2
\* The longest buffer of binary data and the largest RTE_MAX_MSG_BLOCKS of a
\* header.
MaxBufferWords == 6
MaxMsgBlocks == 1
\* The longest buffer where the end of the decoding is checked.
ShortBufferWords == 3
\* MAX_INPUT_LINE_LENGTH is 2004 in the program; scaled down.
MAX_INPUT_LINE_LENGTH == 16
\* CMP_BUFSIZ is 2048 in the program; scaled down.  The longest file.
CMP_BUFSIZ == 2
MaxFileBytes == 3
\* The largest low word of a value of a slot %Y.
MaxSlotValue == 5
\* The timestamp period of the binary file in milliseconds, and the largest
\* number of messages in a buffer of whole messages.
timestamp_period_ms == 100
MaxMessages == 5
\* MAX_ERRORS_IN_SINGLE_MESSAGE is 10 in the program; scaled down.
MAX_ERRORS_IN_SINGLE_MESSAGE == 2
\* MAX_RAW_DATA_SIZE is 256 in the program; scaled down.
MAX_RAW_DATA_SIZE == 6
\* The timestamps of the binary data are multiples of 2^TstampStepBits; the
\* normalized low timestamp word is counted in that unit.
TstampStepBits == 16

(***************************************************************************)
(* Program constants.                                                      *)
(***************************************************************************)
MAX_MSG_LENGTH == 1024
\* 0xFFFFFFFF in the program; written as the 32-bit two's complement value.
FMT_ID_NOT_ASSIGNED == -1
MSG_NAME_NOT_FOUND == -1
EXIT_FATAL_FMT_PARSING_ERRORS == 1
EXIT_FATAL_DECODING_ERRORS_DETECTED == 2
EXIT_NON_FATAL_DECODING_ERRORS_DETECTED == 3
EXIT_FATAL_EXCEPTION_DETECTED_FMT == 5
EXIT_FATAL_EXCEPTION_DETECTED_BIN == 6
FIRST_FATAL_ERROR == 30

MAX_ENUMS == NUMBER_OF_FILTER_BITS + MaxOtherEnums
RECURSIVE Pow2(_)
Pow2(n) == IF n = 0 THEN 1 ELSE 2 * Pow2(n - 1)
MAX_FMT_IDS == Pow2(FmtIdBits)
topmost_fmt_id == Pow2(FmtIdBits) - 2

NULL == 0
NoName == [dir |-> "", num |-> 0, ext |-> 0, id |-> ""]
MsgName(dir, num, ext, id) == [dir |-> dir, num |-> num, ext |-> ext, id |-> id]

VARIABLES
    g_fmt,              \* plan table: format ID -> plan pointer (NULL = 0)
    plans,              \* heap of msg_data_t structures, pointer = index
    fmt_ids_defined,    \* g_msg.fmt_ids_defined
    fmt_align_value,    \* g_msg.fmt_align_value
    enums,              \* g_msg.enums[0 .. MAX_ENUMS]
    enums_found,        \* g_msg.enums_found
    filter_enums,       \* g_msg.filter_enums
    total_errors,       \* g_msg.total_errors
    errors_counted,     \* sum of g_msg.error_counter[]: diagnostics recorded
    handle,             \* parse_handle_t of the file being parsed
    file_line_num,      \* parse_handle.file_line_num
    pstate,             \* position in parse_fmt_file()
    last,               \* the directive parsed last and its outcome
    mpc,                \* position in main()
    index,              \* g_msg.index
    in_size,            \* g_msg.in_size
    binary_file_decoding_finished,
    exit_code,          \* value returned by main() or passed to exit()
    rte_buffer,         \* g_msg.rte_buffer: the words loaded from the binary file
    hdr_data,           \* g_msg.hdr_data: max_msg_blocks, long_timestamp_used
    param,              \* g_msg.param: the timestamp difference limits
    msg_fmt_id,         \* g_msg.fmt_id
    asm_words,          \* g_msg.asm_words
    assembled_msg,      \* g_msg.assembled_msg[0 .. asm_words - 1]
    message_cnt,        \* g_msg.message_cnt
    timestamp,          \* g_msg.timestamp
    msg_error_counter,  \* g_msg.msg_error_counter
    error_log,          \* g_msg.error_log[0 .. msg_error_counter - 1]
    error_counter,      \* g_msg.error_counter[] of the decoding errors
    dlast,              \* the last pass of process_bin_data_worker()
    sel,                \* a value slot with the type %Y and its indexed text
    sync,               \* the files of check_and_replace_work_file()
    stream              \* the binary file of the streaming mode and its loading

parse_vars == <<g_fmt, plans, fmt_ids_defined, fmt_align_value, enums, enums_found,
                filter_enums, errors_counted, handle, file_line_num, pstate, last>>
main_vars == <<mpc, index, in_size, binary_file_decoding_finished, exit_code>>
aux_vars == <<sel, sync, stream>>
decode_vars == <<rte_buffer, hdr_data, param, msg_fmt_id, asm_words, assembled_msg,
                 message_cnt, timestamp, msg_error_counter, error_log, error_counter,
                 dlast, aux_vars>>
vars == <<g_fmt, plans, fmt_ids_defined, fmt_align_value, enums, enums_found,
          filter_enums, total_errors, errors_counted, handle, file_line_num, pstate,
          last, mpc, index, in_size, binary_file_decoding_finished, exit_code,
          rte_buffer, hdr_data, param, msg_fmt_id, asm_words, assembled_msg,
          message_cnt, timestamp, msg_error_counter, error_log, error_counter, dlast,
          sel, sync, stream>>

(***************************************************************************)
(* Format-ID allocator: format.c, assign_fmt_id().                         *)
(***************************************************************************)
Slot(g, i) == IF i \in DOMAIN g THEN g[i] ELSE NULL

\* First loop: skip the format IDs that are assigned already.
RECURSIVE SkipAssigned(_, _)
SkipAssigned(g, a) ==
    IF a < topmost_fmt_id /\ Slot(g, a) # NULL THEN SkipAssigned(g, a + 1) ELSE a

\* (fmt_id + no_fmt_ids - 1) & ~(no_fmt_ids - 1), no_fmt_ids a power of two.
AlignFmtId_unaligned(fmt_id, no_fmt_ids) == fmt_id
AlignFmtId(fmt_id, no_fmt_ids) ==
    ((fmt_id + no_fmt_ids - 1) \div no_fmt_ids) * no_fmt_ids

RangeFree(g, fmt_id, no_fmt_ids) ==
    \A i \in 0 .. no_fmt_ids - 1 : Slot(g, fmt_id + i) = NULL

\* Second loop: the first aligned range below topmost whose IDs are all free;
\* FMT_ID_NOT_ASSIGNED when the loop ends with fmt_id_assigned == false.
RECURSIVE SearchRange(_, _, _)
SearchRange(g, fmt_id, no_fmt_ids) ==
    IF fmt_id >= topmost_fmt_id THEN FMT_ID_NOT_ASSIGNED
    ELSE IF RangeFree(g, fmt_id, no_fmt_ids) THEN fmt_id
    ELSE SearchRange(g, fmt_id + no_fmt_ids, no_fmt_ids)

\* The limit test made on the range that was found.
WithinLimit_table_end(fmt_id, no_fmt_ids) == fmt_id + no_fmt_ids <= MAX_FMT_IDS
WithinLimit(fmt_id, no_fmt_ids) ==
    /\ fmt_id + no_fmt_ids < topmost_fmt_id
    /\ no_fmt_ids < topmost_fmt_id

StoreRange_one_more(g, fmt_id, no_fmt_ids, p) ==
    [i \in DOMAIN g |-> IF fmt_id <= i /\ i <= fmt_id + no_fmt_ids THEN p ELSE g[i]]
StoreRange(g, fmt_id, no_fmt_ids, p) ==
    [i \in DOMAIN g |-> IF fmt_id <= i /\ i < fmt_id + no_fmt_ids THEN p ELSE g[i]]

\* assign_fmt_id() with fmt_ids_defined advanced before the limit test.
assign_fmt_id_early_count(s, no_fmt_ids, p) ==
    LET a == SkipAssigned(s.g_fmt, s.fmt_align_value)
        found == SearchRange(s.g_fmt, AlignFmtId(a, no_fmt_ids), no_fmt_ids)
        s1 == [s EXCEPT !.fmt_align_value = a, !.alloc = no_fmt_ids,
                        !.fmt_ids_defined = IF found # FMT_ID_NOT_ASSIGNED
                                               /\ found + no_fmt_ids > @
                                            THEN found + no_fmt_ids ELSE @]
    IN  IF found # FMT_ID_NOT_ASSIGNED /\ WithinLimit(found, no_fmt_ids)
        THEN [s1 EXCEPT !.g_fmt = StoreRange(@, found, no_fmt_ids, p), !.fmt_id = found]
        ELSE [s1 EXCEPT !.fmt_id = FMT_ID_NOT_ASSIGNED]

\* assign_fmt_id(no_fmt_ids, p_msg_data) on parser state s; the value returned
\* is left in s.fmt_id.
assign_fmt_id(s, no_fmt_ids, p) ==
    IF no_fmt_ids = 0 THEN [s EXCEPT !.fmt_id = FMT_ID_NOT_ASSIGNED, !.alloc = no_fmt_ids]
    ELSE
    LET a == SkipAssigned(s.g_fmt, s.fmt_align_value)
        found == SearchRange(s.g_fmt, AlignFmtId(a, no_fmt_ids), no_fmt_ids)
        s1 == [s EXCEPT !.fmt_align_value = a, !.alloc = no_fmt_ids]
    IN  IF found # FMT_ID_NOT_ASSIGNED /\ WithinLimit(found, no_fmt_ids)
        THEN [s1 EXCEPT
                !.fmt_ids_defined = IF found + no_fmt_ids > @ THEN found + no_fmt_ids ELSE @,
                !.g_fmt = StoreRange(@, found, no_fmt_ids, p),
                !.fmt_id = found]
        ELSE [s1 EXCEPT !.fmt_id = FMT_ID_NOT_ASSIGNED]

\* find_message_format_index(name): the first format ID below fmt_ids_defined
\* whose plan has this name.
find_message_format_index(s, name) ==
    LET hits == {i \in 0 .. s.fmt_ids_defined - 1 :
                    /\ Slot(s.g_fmt, i) # NULL
                    /\ s.plans[Slot(s.g_fmt, i)].message_name # NoName
                    /\ s.plans[Slot(s.g_fmt, i)].message_name = name}
    IN  IF hits = {} THEN MSG_NAME_NOT_FOUND
        ELSE CHOOSE i \in hits : \A j \in hits : i <= j

(***************************************************************************)
(* Parser state and error reporting: parse_error_reporting.c.              *)
(***************************************************************************)
\* The globals and the parse handle as one record, before a handler runs.
Cur ==
    [g_fmt |-> g_fmt, plans |-> plans, fmt_ids_defined |-> fmt_ids_defined,
     fmt_align_value |-> fmt_align_value, enums |-> enums, enums_found |-> enums_found,
     filter_enums |-> filter_enums, total_errors |-> total_errors,
     errors_counted |-> errors_counted,
     p_current_message |-> handle.p_current_message,
     p_new_message |-> handle.p_new_message,
     in_file_select |-> handle.in_file_select,
     out_file_select |-> handle.out_file_select,
     current_in_file_idx |-> handle.current_in_file_idx,
     jumped |-> FALSE, err |-> "", alloc |-> 0, fmt_id |-> FMT_ID_NOT_ASSIGNED]

\* report_parsing_error(): count the error and return to the caller.
report_parsing_error(s, code) ==
    [s EXCEPT !.total_errors = @ + 1, !.errors_counted = @ + 1, !.err = code]

\* catch_parsing_error(): report, then longjmp to the landing point.
catch_parsing_error(s, code) ==
    [report_parsing_error(s, code) EXCEPT !.jumped = TRUE]

\* "g_msg.total_errors = MAX_ERRORS_REPORTED - 1; catch_parsing_error(...)"
ForcedCount_keep(n) == n
ForcedCount(n) == MAX_ERRORS_REPORTED - 1
fatal_parsing_error(s, code) ==
    catch_parsing_error([s EXCEPT !.total_errors = ForcedCount(@)], code)

\* parse_directive.c
reset_parse_handle(s) ==
    [s EXCEPT !.p_new_message = NULL, !.in_file_select = FALSE, !.out_file_select = FALSE]

check_if_the_last_msg_is_empty(s) ==
    IF s.p_current_message # NULL /\ ~s.plans[s.p_current_message].fmt_string
    THEN report_parsing_error(s, "ERR_PARSE_MSG_EMPTY")
    ELSE s

check_and_reset_fmt_parsing(s) ==
    [reset_parse_handle(check_if_the_last_msg_is_empty(s)) EXCEPT !.p_current_message = NULL]

\* set_default_fmt(): give the current message an empty format after an error.
set_default_fmt(s) ==
    IF s.p_current_message = NULL \/ s.plans[s.p_current_message].fmt_string
    THEN s
    ELSE [s EXCEPT !.plans[s.p_current_message].fmt_string = TRUE]

\* The landing point of the longjmp in parse_fmt_file().
Landing(s) == set_default_fmt(reset_parse_handle(s))

(***************************************************************************)
(* MSG, EXT_MSG, MSGN and MSGX directives: parse_directive_msg.c.          *)
(* A number argument of -1 stands for text that is not a number.           *)
(***************************************************************************)
NewPlan(msg_type) ==
    [message_name |-> NoName, msg_type |-> msg_type, ext_data_mask |-> 0,
     msg_len |-> 0, fmt_string |-> FALSE]

parse_msg_num(s, msg_num) ==
    IF msg_num < 0 THEN catch_parsing_error(s, "ERR_PARSE_EXPECTING_NUMBER")
    ELSE IF msg_num > 4 THEN catch_parsing_error(s, "ERR_PARSE_MSG_SIZE_0_4")
    ELSE assign_fmt_id([s EXCEPT !.plans[s.p_new_message].msg_len = 4 * msg_num],
                       Pow2(msg_num), s.p_new_message)

parse_ext_msg_num(s, msg_num, extended_data_length) ==
    IF msg_num < 0 THEN catch_parsing_error(s, "ERR_PARSE_EXPECTING_NUMBER")
    ELSE IF msg_num > 4 THEN catch_parsing_error(s, "ERR_PARSE_EXT_MSG_SIZE")
    ELSE IF extended_data_length < 0
    THEN catch_parsing_error(s, "ERR_PARSE_EXPECTING_NUMBER")
    ELSE IF extended_data_length > 8 - msg_num \/ extended_data_length < 1
    THEN catch_parsing_error(s, "ERR_PARSE_EXT_MSG_NO_BITS")
    ELSE assign_fmt_id(
            [s EXCEPT !.plans[s.p_new_message].ext_data_mask = Pow2(extended_data_length) - 1,
                      !.plans[s.p_new_message].msg_len = 4 + msg_num * 4],
            Pow2(extended_data_length + msg_num), s.p_new_message)

parse_msgx_num(s) == assign_fmt_id(s, 16, s.p_new_message)

\* known = FALSE: "MSGN_NAME"; known = TRUE: "MSGN<msg_num>_NAME".
MsgnLen(msg_num) == msg_num * 4
parse_msgn_num(s, known, msg_num) ==
    IF ~known THEN assign_fmt_id(s, 16, s.p_new_message)
    ELSE IF msg_num < 0 THEN catch_parsing_error(s, "ERR_PARSE_EXPECTING_NUMBER")
    ELSE
    LET s1 == assign_fmt_id(s, 16, s.p_new_message)
        s2 == [s1 EXCEPT !.plans[s.p_new_message].msg_len = MsgnLen(msg_num)]
    IN  IF msg_num > MAX_MSG_LENGTH
        THEN catch_parsing_error(s2, "ERR_PARSE_MSG_DEFINITION_TOO_BIG")
        ELSE IF msg_num = 0
        THEN catch_parsing_error(s2, "ERR_PARSE_MSG0_NOT_ALLOWED")
        ELSE s2

parse_msg_name(s, name) ==
    IF find_message_format_index(s, name) # MSG_NAME_NOT_FOUND
    THEN catch_parsing_error(s, "ERR_PARSE_MSG_NAME_EXISTS")
    ELSE [s EXCEPT !.plans[s.p_new_message].message_name = name]

\* The p_parse_msg_no function pointer that parse_msg_directives() passes for
\* each directive; num holds the parts of the number text.
p_parse_msg_no(s, msg_type, num) ==
    CASE msg_type = "TYPE_MSG0_4"  -> parse_msg_num(s, num[1])
      [] msg_type = "TYPE_EXT_MSG" -> parse_ext_msg_num(s, num[1], num[2])
      [] msg_type = "TYPE_MSGN"    -> parse_msgn_num(s, num[1], num[2])
      [] msg_type = "TYPE_MSGX"    -> parse_msgx_num(s)

\* parse_msg_directive(): name_ok says whether '_' and an alphanumeric
\* character follow the number.
parse_msg_directive(s, msg_type, num, name_ok, name) ==
    LET s1 == check_if_the_last_msg_is_empty(s) IN
    IF s1.p_new_message # NULL
    THEN catch_parsing_error(s1, "ERR_PARSE_MSG_MULTIPLE_IN_LINE")
    ELSE IF s1.in_file_select \/ s1.out_file_select
    THEN catch_parsing_error(s1, "ERR_PARSE_MSG_IN_LINE_AFTER_IN_OUT_SELECT")
    ELSE
    LET s2 == [s1 EXCEPT !.plans = Append(@, NewPlan(msg_type)),
                         !.p_new_message = Len(s1.plans) + 1]
        s3 == p_parse_msg_no(s2, msg_type, num)
    IN  IF s3.jumped THEN s3
        ELSE IF s3.fmt_id = FMT_ID_NOT_ASSIGNED
        THEN fatal_parsing_error(s3, "ERR_PARSE_FMT_ID_NOT_ASSIGNED")
        ELSE IF ~name_ok THEN catch_parsing_error(s3, "ERR_PARSE_MSG_DEFINITION")
        ELSE LET s4 == parse_msg_name(s3, name)
             IN  IF s4.jumped THEN s4
                 ELSE [s4 EXCEPT !.p_current_message = s4.p_new_message]

(***************************************************************************)
(* FMT_ALIGN and FMT_START: parse_directive.c.                             *)
(* tail_ok says whether ')' and nothing else follows the number.           *)
(***************************************************************************)
is_power_of_two(n) == n # 0 /\ \E k \in 0 .. 30 : n = Pow2(k)

parse_fmt_align(s, new_align_value, tail_ok) ==
    LET s1 == check_and_reset_fmt_parsing(s) IN
    IF new_align_value < 0 THEN catch_parsing_error(s1, "ERR_PARSE_EXPECTING_NUMBER")
    ELSE IF new_align_value > topmost_fmt_id
    THEN fatal_parsing_error(s1, "ERR_PARSE_FMT_ALIGN_OVER_MAX")
    ELSE IF ~is_power_of_two(new_align_value)
    THEN catch_parsing_error(s1, "ERR_PARSE_FMT_ALIGN_PWR_OF_2")
    ELSE
    LET v == AlignFmtId(s1.fmt_ids_defined, new_align_value)
        s2 == [s1 EXCEPT !.fmt_ids_defined = v, !.fmt_align_value = v]
    IN  IF tail_ok THEN s2 ELSE catch_parsing_error(s2, "ERR_PARSE_NO_CLOSING_BRACKET")

StartTooLarge_off(new_fmt_position) == FALSE
StartTooLarge(new_fmt_position) == new_fmt_position >= topmost_fmt_id
StartBackward(defined, new_fmt_position) == defined > new_fmt_position
parse_fmt_start(s, new_fmt_position, tail_ok) ==
    LET s1 == check_and_reset_fmt_parsing(s) IN
    IF new_fmt_position < 0 THEN catch_parsing_error(s1, "ERR_PARSE_EXPECTING_NUMBER")
    ELSE IF StartTooLarge(new_fmt_position)
    THEN fatal_parsing_error(s1, "ERR_PARSE_FMT_ALIGN_OVER_MAX")
    ELSE IF StartBackward(s1.fmt_ids_defined, new_fmt_position)
    THEN catch_parsing_error(s1, "ERR_PARSE_FMT_START_ALIGNMENT")
    ELSE
    LET s2 == [s1 EXCEPT !.fmt_ids_defined = new_fmt_position,
                         !.fmt_align_value = new_fmt_position]
    IN  IF tail_ok THEN s2 ELSE catch_parsing_error(s2, "ERR_PARSE_NO_CLOSING_BRACKET")

(***************************************************************************)
(* Enum table: FILTER, MEMO, IN_FILE, OUT_FILE and the file selections.    *)
(* head_ok: the text up to the name parses (opening bracket, name syntax   *)
(* and prefix); tail_ok: the text after the name parses.                   *)
(***************************************************************************)
NoEnum == [name |-> "", type |-> "FILTER_TYPE"]

check_if_enums_name_exists(s, newName) ==
    \E i \in 0 .. s.enums_found - 1 : s.enums[i].name # "" /\ s.enums[i].name = newName

find_enum_idx(s, enum_name, enum_type) ==
    LET hits == {i \in NUMBER_OF_FILTER_BITS .. s.enums_found - 1 :
                    /\ s.enums[i].name # ""
                    /\ s.enums[i].name = enum_name
                    /\ s.enums[i].type = enum_type}
    IN  IF hits = {} THEN 0 ELSE CHOOSE i \in hits : \A j \in hits : i <= j

\* parse_directive_name(): the name is returned unless the handler jumps.
parse_directive_name(s, head_ok, name) ==
    IF ~head_ok THEN catch_parsing_error(s, "ERR_PARSE_INVALID_NAME")
    ELSE IF check_if_enums_name_exists(s, name)
    THEN catch_parsing_error(s, "ERR_PARSE_ENUMS_NAME_EXISTS")
    ELSE IF s.enums_found >= MAX_ENUMS
    THEN fatal_parsing_error(s, "ERR_PARSE_MAX_ENUMS")
    ELSE s

parse_filter(s, head_ok, name, tail_ok) ==
    LET filter_no == s.filter_enums
        s1 == [s EXCEPT !.enums[filter_no].type = "FILTER_TYPE"]
        s2 == check_and_reset_fmt_parsing(s1)
    IN  IF filter_no >= NUMBER_OF_FILTER_BITS
        THEN catch_parsing_error(s2, "ERR_PARSE_FILTER_MAX_ENUMS")
        ELSE
        LET s3 == parse_directive_name(s2, head_ok, name) IN
        IF s3.jumped THEN s3
        ELSE
        LET s4 == [s3 EXCEPT !.enums[filter_no].name = name] IN
        IF ~tail_ok THEN catch_parsing_error(s4, "ERR_PARSE_NO_CLOSING_BRACKET")
        ELSE [s4 EXCEPT !.filter_enums = @ + 1]

\* The common shape of parse_memo(), parse_in_file() and parse_out_file():
\* the type is written first, the name next, enums_found is advanced last.
parse_enum_directive(s, enum_type, head_ok, name, tail_ok) ==
    LET s1 == [s EXCEPT !.enums[s.enums_found].type = enum_type]
        s2 == check_and_reset_fmt_parsing(s1)
        s3 == parse_directive_name(s2, head_ok, name)
    IN  IF s3.jumped THEN s3
        ELSE
        LET s4 == [s3 EXCEPT !.enums[s.enums_found].name = name] IN
        IF ~tail_ok THEN catch_parsing_error(s4, "ERR_PARSE_NO_CLOSING_BRACKET")
        ELSE [s4 EXCEPT !.enums_found = @ + 1]

parse_memo(s, head_ok, name, tail_ok) ==
    parse_enum_directive(s, "MEMO_TYPE", head_ok, name, tail_ok)
parse_in_file(s, head_ok, name, tail_ok) ==
    parse_enum_directive(s, "IN_FILE_TYPE", head_ok, name, tail_ok)
parse_out_file(s, head_ok, name, tail_ok) ==
    parse_enum_directive(s, "OUT_FILE_TYPE", head_ok, name, tail_ok)

parse_select_in_file(s, name) ==
    IF s.in_file_select
    THEN catch_parsing_error(s, "ERR_PARSE_SELECT_IN_FILE_MULTIPLE_IN_LINE")
    ELSE
    LET s1 == [s EXCEPT !.in_file_select = TRUE] IN
    IF s1.p_current_message = NULL
    THEN catch_parsing_error(s1, "ERR_PARSE_IN_OUT_SELECT_NO_MSG")
    ELSE
    LET s2 == [s1 EXCEPT !.current_in_file_idx = find_enum_idx(s1, name, "IN_FILE_TYPE")] IN
    IF s2.current_in_file_idx = 0
    THEN catch_parsing_error(s2, "ERR_PARSE_IN_SELECT_UNDEFINED")
    ELSE s2

parse_select_out_file(s, name) ==
    IF s.out_file_select
    THEN catch_parsing_error(s, "ERR_PARSE_SELECT_OUT_FILE_MULTIPLE_IN_LINE")
    ELSE
    LET s1 == [s EXCEPT !.out_file_select = TRUE] IN
    IF s1.p_current_message = NULL
    THEN catch_parsing_error(s1, "ERR_PARSE_IN_OUT_SELECT_NO_MSG")
    ELSE IF find_enum_idx(s1, name, "OUT_FILE_TYPE") = 0
    THEN catch_parsing_error(s1, "ERR_PARSE_OUT_SELECT_UNDEFINED")
    ELSE s1

(***************************************************************************)
(* Formatting text: parse_fmt_text() and parse_fmt_string.c.               *)
(* text: "invalid" (no closing quote), "plain" (no indexed text),          *)
(* "indexed" (one {a|b|...} list); tail_ok: nothing follows the quote.     *)
(***************************************************************************)
save_the_indexed_text_line(s, in_file) ==
    IF s.enums_found >= MAX_ENUMS
    THEN fatal_parsing_error(s, "ERR_PARSE_MAX_ENUMS")
    ELSE IF in_file # 0
    THEN catch_parsing_error(s, "ERR_PARSE_Y_TEXT_OVERDEFINED")
    ELSE [s EXCEPT !.enums[s.enums_found] = [name |-> "#Y_TEXT", type |-> "Y_TEXT_TYPE"],
                   !.enums_found = @ + 1,
                   !.fmt_ids_defined = @ + 1]

parse_fmt_text(s, text, tail_ok) ==
    IF text = "invalid" THEN catch_parsing_error(s, "ERR_PARSE_INVALID_TEXT")
    ELSE IF s.p_current_message = NULL
    THEN catch_parsing_error(s, "ERR_PARSE_NO_PRIOR_MSG")
    ELSE
    LET s1 == IF text = "indexed"
              THEN save_the_indexed_text_line(s, s.current_in_file_idx)
              ELSE s
    IN  IF s1.jumped THEN s1
        ELSE
        LET s2 == [s1 EXCEPT !.plans[s.p_current_message].fmt_string = TRUE,
                             !.current_in_file_idx = 0]
        IN  IF tail_ok THEN s2 ELSE catch_parsing_error(s2, "ERR_PARSE_SURPLUS_TEXT")

(***************************************************************************)
(* Inputs: the texts a line of the format definition file may hold.        *)
(***************************************************************************)
\* A profile names the texts that the lines of one family of format definition
\* files hold.  AllocFiles exercises the format-ID allocator in depth,
\* EnumFiles the enum table and the error recovery.
AllocFiles ==
    [MsgNums |-> 0 .. 5,
     ExtNums |-> {<<0, 1>>, <<1, 2>>, <<4, 1>>, <<0, 0>>, <<5, 1>>},
     MsgnNums |-> {<<FALSE, 0>>, <<TRUE, 0>>, <<TRUE, 1>>, <<TRUE, MAX_MSG_LENGTH + 1>>},
     NameOk |-> BOOLEAN,
     MsgIds |-> {"A"},
     StartValues |-> {-1, 0, 3, topmost_fmt_id - 3, topmost_fmt_id - 1,
                      topmost_fmt_id, MAX_FMT_IDS},
     AlignValues |-> {0, 1, 3, 4, MAX_FMT_IDS},
     TailOk |-> BOOLEAN,
     EnumNames |-> {"a"},
     HeadOk |-> {TRUE},
     Texts |-> {"plain", "indexed"},
     More |-> BOOLEAN,
     InLine |-> {"TEXT"}]

EnumFiles ==
    [MsgNums |-> {0, 4},
     ExtNums |-> {<<0, 1>>},
     MsgnNums |-> {<<TRUE, -1>>, <<TRUE, 0>>},
     NameOk |-> {TRUE},
     MsgIds |-> {"A"},
     StartValues |-> {0, MAX_FMT_IDS},
     AlignValues |-> {1, MAX_FMT_IDS},
     TailOk |-> {TRUE},
     EnumNames |-> {"a", "b"},
     HeadOk |-> BOOLEAN,
     Texts |-> {"invalid", "plain", "indexed"},
     More |-> BOOLEAN,
     InLine |-> {"TEXT", "MSG", "<", ">"}]

(***************************************************************************)
(* The decoder's globals before the binary data is loaded.                 *)
(* Timestamp values are counted in units of 2^TstampStepBits; a fraction   *)
(* of the timestamp period (0.33, -0.10) is a record num / den.            *)
(***************************************************************************)
NORMALIZED_TSTAMP_PERIOD == Pow2(32 - TstampStepBits)
MAX_NEGATIVE_TSTAMP_DIFF == [num |-> 33, den |-> 100]
MAX_POSITIVE_TSTAMP_DIFF == [num |-> 33, den |-> 100]
MIN_TIMESTAMP_DIFF == [num |-> 1, den |-> 100]

\* (int64_t)(f * (double)NORMALIZED_TSTAMP_PERIOD): the cast truncates towards 0.
TstampDiff(f) ==
    IF f.num < 0 THEN -(((-f.num) * NORMALIZED_TSTAMP_PERIOD) \div f.den)
    ELSE (f.num * NORMALIZED_TSTAMP_PERIOD) \div f.den

DEFAULT_POSITIVE_TIMESTAMP_DIFF == TstampDiff(MAX_POSITIVE_TSTAMP_DIFF)
\* The default of the negative limit, were it the largest accepted one.
default_negative_one_third == TstampDiff([num |-> -33, den |-> 100])
DEFAULT_NEGATIVE_TIMESTAMP_DIFF == TstampDiff([num |-> -10, den |-> 100])

\* process_command_line_parameters() without a -ts argument: the fractions
\* max_..._tstamp_diff_f stay 0.0 and the limits have their default values.
NoFraction == [num |-> 0, den |-> 100]
DefaultParam ==
    [max_negative_tstamp_diff_f |-> NoFraction,
     max_positive_tstamp_diff_f |-> NoFraction,
     max_negative_tstamp_diff |-> DEFAULT_NEGATIVE_TIMESTAMP_DIFF,
     max_positive_tstamp_diff |-> DEFAULT_POSITIVE_TIMESTAMP_DIFF]

\* The -ts argument: none, or the pair neg;pos of milliseconds.
NoTs == [given |-> FALSE, neg |-> 0, pos |-> 0]

\* Comparison of two fractions with positive denominators.
FracLess(a, b) == a.num * b.den < b.num * a.den

\* process_the_timestamp_diff_value(): the result is the parameters and
\* whether report_error_and_show_instructions() has ended the program.
process_the_timestamp_diff_value(p, ts) ==
    LET p1 == [p EXCEPT !.max_negative_tstamp_diff_f = [num |-> ts.neg, den |-> 1],
                        !.max_positive_tstamp_diff_f = [num |-> ts.pos, den |-> 1]]
    IN  [fatal |-> ts.neg >= 0 \/ ts.pos <= 0, param |-> p1]

\* process_command_line_parameters(): the default values, then the -ts
\* argument if there is one.
process_command_line_parameters(ts) ==
    IF ts.given THEN process_the_timestamp_diff_value(DefaultParam, ts)
    ELSE [fatal |-> FALSE, param |-> DefaultParam]

\* check_timestamp_diff_values(): period_ms is timestamp_period_ms, which the
\* header of the binary file defines.
check_timestamp_diff_values(p, period_ms) ==
    IF p.max_negative_tstamp_diff_f.num = 0
    THEN [fatal |-> FALSE, param |-> p]
    ELSE
    LET neg == [num |-> p.max_negative_tstamp_diff_f.num,
                den |-> p.max_negative_tstamp_diff_f.den * period_ms]
        pos == [num |-> p.max_positive_tstamp_diff_f.num,
                den |-> p.max_positive_tstamp_diff_f.den * period_ms]
        Minus(f) == [num |-> -f.num, den |-> f.den]
    IN  [fatal |-> \/ FracLess(neg, Minus(MAX_NEGATIVE_TSTAMP_DIFF))
                   \/ FracLess(Minus(MIN_TIMESTAMP_DIFF), neg)
                   \/ FracLess(MAX_POSITIVE_TSTAMP_DIFF, pos)
                   \/ FracLess(pos, MIN_TIMESTAMP_DIFF),
         param |-> [max_negative_tstamp_diff_f |-> neg,
                    max_positive_tstamp_diff_f |-> pos,
                    max_negative_tstamp_diff |-> TstampDiff(neg),
                    max_positive_tstamp_diff |-> TstampDiff(pos)]]

\* g_msg.timestamp as the zeroed static structure holds it.
NoTimestamp ==
    [h |-> 0, l |-> 0, old |-> 0, searched_to_index |-> 0,
     msg_long_tstamp_incremented |-> 0, suspicious_timestamp |-> 0,
     mark_problematic_tstamps |-> FALSE, no_previous_tstamp |-> FALSE,
     long_timestamp_found |-> FALSE]

\* The outcome of a pass of the worker loop; "none" before the first pass.
NoPass ==
    [code |-> "none", last_index |-> 0, bad_packet_words |-> 0, unfinished_words |-> 0,
     raw_data |-> <<>>, fmt_id |-> 0, reported |-> <<>>, printed |-> <<>>,
     slot_errors |-> <<>>, h_before |-> 0, l_before |-> 0, old_before |-> 0,
     cnt_before |-> 0, no_previous_before |-> FALSE, values_printed |-> FALSE,
     tstamp_branch |-> "none", assembled |-> <<>>, additional_data |-> 0,
     searched_before |-> 0, searched_after |-> 0, asm_size |-> 0,
     suspicious_before |-> 0, mark_before |-> FALSE, incremented_before |-> 0,
     scans |-> 0, time_diff |-> 0, end_index |-> 0, walked_before |-> 0,
     msg_errors_before |-> 0]

\* The binary file is loaded completely: complete_file_loaded is
\* g_msg.complete_file_loaded, file the words that are still to be read,
\* rte_header the header of the file with the bit RTE_BUFF_SIZE_IS_POWER_OF_2,
\* walked_to the end of the words of the buffer that long_timestamp_found()
\* has walked, overrun a write behind the end of the buffer and fatal a call
\* of report_fatal_error_and_exit().
NoStream ==
    [complete_file_loaded |-> TRUE, file |-> <<>>, already_processed_data |-> 0,
     walked_to |-> 0, overrun |-> FALSE, fatal |-> FALSE,
     rte_header |-> [last_index |-> 0, buffer_size |-> 0,
                     buffer_size_is_power_of_2 |-> FALSE]]

\* No value of the type %Y has been printed.
NoSelectedText ==
    [text |-> <<>>, type |-> "FILTER_TYPE", in_file_txt |-> <<>>,
     data_u64 |-> [hi |-> 0, lo |-> 0], txt_buffer |-> <<>>, printed |-> FALSE]

\* A file that does not exist, and the files before any format file is
\* compiled.
NoFile == [exists |-> FALSE, bytes |-> <<>>]
NoFiles ==
    [fmt |-> NoFile, header |-> NoFile, work |-> NoFile, backup |-> NoFile,
     write_output_to_header |-> FALSE, parsing_errors_found |-> FALSE,
     create_backup |-> FALSE, reported |-> <<>>, done |-> FALSE,
     os |-> [header_opens |-> TRUE, remove_work |-> TRUE, remove_old |-> TRUE,
             remove_backup |-> TRUE, rename_old |-> TRUE, rename_work |-> TRUE],
     was |-> [fmt |-> NoFile, header |-> NoFile, work |-> NoFile, backup |-> NoFile]]

NoDecoding ==
    /\ rte_buffer = <<>>
    /\ hdr_data = [max_msg_blocks |-> 0, long_timestamp_used |-> FALSE]
    /\ param = DefaultParam
    /\ msg_fmt_id = 0
    /\ asm_words = 0
    /\ assembled_msg = <<>>
    /\ message_cnt = 0
    /\ timestamp = NoTimestamp
    /\ msg_error_counter = 0
    /\ error_log = <<>>
    /\ error_counter = <<>>
    /\ dlast = NoPass

(***************************************************************************)
(* parse_fmt_file(): the line loop and the landing point of the longjmp.   *)
(***************************************************************************)
NoLast == [op |-> "none", arg |-> 0, jumped |-> FALSE, err |-> "", alloc |-> 0,
           fmt_id |-> FMT_ID_NOT_ASSIGNED]

\* The globals of the parser, of main() and of the decoder at the start.
ParserStart ==
    /\ g_fmt = [i \in 0 .. MAX_FMT_IDS - 1 |-> NULL]
    /\ plans = <<>>
    /\ fmt_ids_defined = 0
    /\ fmt_align_value = 0
    /\ enums = [i \in 0 .. MAX_ENUMS |-> NoEnum]
    /\ enums_found = NUMBER_OF_FILTER_BITS
    /\ filter_enums = 0
    /\ total_errors = 0
    /\ errors_counted = 0
    /\ handle = [p_current_message |-> NULL, p_new_message |-> NULL,
                 in_file_select |-> FALSE, out_file_select |-> FALSE,
                 current_in_file_idx |-> 0, parsing_errors_found |-> FALSE]
    /\ file_line_num = 0
    /\ pstate = "line"
    /\ last = NoLast
    /\ mpc = "parse"
    /\ index = 0
    /\ in_size = 0
    /\ binary_file_decoding_finished = FALSE
    /\ exit_code = -1
    /\ NoDecoding

InitParse ==
    ParserStart /\ sel = NoSelectedText /\ sync = NoFiles /\ stream = NoStream

\* A directive can be parsed: either the loop reads a new line (the error limit
\* is tested first), or the line parsed last holds more text.
AtLine == pstate = "line" /\ total_errors < MAX_ERRORS_REPORTED /\ file_line_num < MaxLines
InLine == pstate = "directive"
CanParse(P, op, more) == AtLine \/ (InLine /\ ~more /\ op \in P.InLine)

\* A rejected MSG directive may leave behind a msg_data_t structure that no
\* pointer refers to; such a structure is not part of the state.
Reachable(s) ==
    IF /\ Len(s.plans) > 0
       /\ \A i \in DOMAIN s.g_fmt : s.g_fmt[i] # Len(s.plans)
       /\ s.p_current_message # Len(s.plans)
       /\ s.p_new_message # Len(s.plans)
    THEN SubSeq(s.plans, 1, Len(s.plans) - 1)
    ELSE s.plans

\* The parser state r that a handler leaves behind becomes the new state: after
\* a longjmp the landing point runs, at the end of the line parse_directive()
\* resets the handle, and with more text on the line the next directive follows.
Commit(op, arg, r, more) ==
    LET f == IF r.jumped THEN Landing(r)
             ELSE IF more THEN r ELSE reset_parse_handle(r)
    IN  /\ g_fmt' = f.g_fmt
        /\ plans' = Reachable(f)
        /\ fmt_ids_defined' = f.fmt_ids_defined
        /\ fmt_align_value' = f.fmt_align_value
        /\ enums' = f.enums
        /\ enums_found' = f.enums_found
        /\ filter_enums' = f.filter_enums
        /\ total_errors' = f.total_errors
        /\ errors_counted' = f.errors_counted
        /\ handle' = [handle EXCEPT !.p_current_message = f.p_current_message,
                                    !.p_new_message = f.p_new_message,
                                    !.in_file_select = f.in_file_select,
                                    !.out_file_select = f.out_file_select,
                                    !.current_in_file_idx = f.current_in_file_idx]
        /\ file_line_num' = IF pstate = "line" THEN file_line_num + 1 ELSE file_line_num
        /\ pstate' = IF r.jumped \/ ~more THEN "line" ELSE "directive"
        /\ last' = [op |-> op, arg |-> arg, jumped |-> r.jumped, err |-> r.err,
                    alloc |-> r.alloc, fmt_id |-> r.fmt_id]
        /\ UNCHANGED <<main_vars, decode_vars>>

Msg(P) ==
    \E msg_num \in P.MsgNums, name_ok \in P.NameOk, id \in P.MsgIds, more \in P.More :
        /\ CanParse(P, "MSG", more)
        /\ Commit("MSG", msg_num,
                  parse_msg_directive(Cur, "TYPE_MSG0_4",
                                      <<msg_num>>,
                                      name_ok, MsgName("MSG", msg_num, 0, id)),
                  more)

ExtMsg(P) ==
    \E e \in P.ExtNums, name_ok \in P.NameOk, id \in P.MsgIds, more \in P.More :
        /\ CanParse(P, "EXT_MSG", more)
        /\ Commit("EXT_MSG", e[1],
                  parse_msg_directive(Cur, "TYPE_EXT_MSG",
                                      e,
                                      name_ok, MsgName("EXT_MSG", e[1], e[2], id)),
                  more)

Msgn(P) ==
    \E n \in P.MsgnNums, name_ok \in P.NameOk, id \in P.MsgIds, more \in P.More :
        /\ CanParse(P, "MSGN", more)
        /\ Commit("MSGN", n[2],
                  parse_msg_directive(Cur, "TYPE_MSGN",
                                      n,
                                      name_ok,
                                      MsgName("MSGN", IF n[1] THEN n[2] ELSE -1, 0, id)),
                  more)

Msgx(P) ==
    \E name_ok \in P.NameOk, id \in P.MsgIds, more \in P.More :
        /\ CanParse(P, "MSGX", more)
        /\ Commit("MSGX", 0,
                  parse_msg_directive(Cur, "TYPE_MSGX", <<>>,
                                      name_ok, MsgName("MSGX", 0, 0, id)),
                  more)

FmtAlign(P) ==
    \E v \in P.AlignValues, tail_ok \in P.TailOk :
        /\ CanParse(P, "FMT_ALIGN", FALSE)
        /\ Commit("FMT_ALIGN", v, parse_fmt_align(Cur, v, tail_ok), FALSE)

FmtStart(P) ==
    \E v \in P.StartValues, tail_ok \in P.TailOk :
        /\ CanParse(P, "FMT_START", FALSE)
        /\ Commit("FMT_START", v, parse_fmt_start(Cur, v, tail_ok), FALSE)

Filter(P) ==
    \E head_ok \in P.HeadOk, name \in P.EnumNames, tail_ok \in P.TailOk :
        /\ CanParse(P, "FILTER", FALSE)
        /\ Commit("FILTER", 0, parse_filter(Cur, head_ok, name, tail_ok), FALSE)

Memo(P) ==
    \E head_ok \in P.HeadOk, name \in P.EnumNames, tail_ok \in P.TailOk :
        /\ CanParse(P, "MEMO", FALSE)
        /\ Commit("MEMO", 0, parse_memo(Cur, head_ok, name, tail_ok), FALSE)

InFile(P) ==
    \E head_ok \in P.HeadOk, name \in P.EnumNames, tail_ok \in P.TailOk :
        /\ CanParse(P, "IN_FILE", FALSE)
        /\ Commit("IN_FILE", 0, parse_in_file(Cur, head_ok, name, tail_ok), FALSE)

OutFile(P) ==
    \E head_ok \in P.HeadOk, name \in P.EnumNames, tail_ok \in P.TailOk :
        /\ CanParse(P, "OUT_FILE", FALSE)
        /\ Commit("OUT_FILE", 0, parse_out_file(Cur, head_ok, name, tail_ok), FALSE)

SelectInFile(P) ==
    \E name \in P.EnumNames, more \in P.More :
        /\ CanParse(P, "<", more)
        /\ Commit("<", 0, parse_select_in_file(Cur, name), more)

SelectOutFile(P) ==
    \E name \in P.EnumNames, more \in P.More :
        /\ CanParse(P, ">", more)
        /\ Commit(">", 0, parse_select_out_file(Cur, name), more)

FmtText(P) ==
    \E text \in P.Texts, tail_ok \in P.TailOk :
        /\ CanParse(P, "TEXT", FALSE)
        /\ Commit("TEXT", 0, parse_fmt_text(Cur, text, tail_ok), FALSE)

\* Neither a directive nor a formatting text.
Unrecognized(P) ==
    /\ CanParse(P, "UNRECOGNIZED", FALSE)
    /\ Commit("UNRECOGNIZED", 0,
              catch_parsing_error(Cur, "ERR_PARSE_UNRECOGNIZED_DIRECTIVE"), FALSE)

\* parse_input_line() returns at once: '#' line or a commented-out line.
IgnoredLine ==
    /\ AtLine
    /\ file_line_num' = file_line_num + 1
    /\ last' = [NoLast EXCEPT !.op = "IGNORED"]
    /\ UNCHANGED <<g_fmt, plans, fmt_ids_defined, fmt_align_value, enums, enums_found,
                   filter_enums, total_errors, errors_counted, handle, pstate>>
    /\ UNCHANGED <<main_vars, decode_vars>>

\* The loop ends: parse_fmt_file() checks the last message and returns.
LeaveLoop(op, s, found) ==
    LET f == check_if_the_last_msg_is_empty(s)
    IN  /\ total_errors' = f.total_errors
        /\ errors_counted' = f.errors_counted
        /\ handle' = [handle EXCEPT !.parsing_errors_found = found]
        /\ pstate' = "done"
        /\ last' = [NoLast EXCEPT !.op = op, !.err = f.err]
        /\ UNCHANGED <<g_fmt, plans, fmt_ids_defined, fmt_align_value, enums, enums_found,
                       filter_enums, file_line_num>>
        /\ UNCHANGED <<main_vars, decode_vars>>

\* fgets() returns NULL: end of file, or a read error (errno set).
EndOfFile ==
    \E read_error \in BOOLEAN :
        /\ pstate = "line"
        /\ total_errors < MAX_ERRORS_REPORTED
        /\ LeaveLoop("EOF",
                     IF read_error
                     THEN report_parsing_error(Cur, "ERR_PARSE_READ_FROM_FMT_FILE")
                     ELSE Cur,
                     FALSE)

\* "if (g_msg.total_errors >= MAX_ERRORS_REPORTED) { ...; break; }"
AbandonLimit(n) == n >= MAX_ERRORS_REPORTED
Abandon ==
    /\ pstate = "line"
    /\ AbandonLimit(total_errors)
    /\ LeaveLoop("ABANDON", Cur, TRUE)

NextParse(P) ==
    \/ Msg(P) \/ ExtMsg(P) \/ Msgn(P) \/ Msgx(P)
    \/ FmtAlign(P) \/ FmtStart(P)
    \/ Filter(P) \/ Memo(P) \/ InFile(P) \/ OutFile(P)
    \/ SelectInFile(P) \/ SelectOutFile(P)
    \/ FmtText(P) \/ Unrecognized(P) \/ IgnoredLine
    \/ EndOfFile \/ Abandon

SpecAlloc == InitParse /\ [][NextParse(AllocFiles)]_vars
SpecEnum == InitParse /\ [][NextParse(EnumFiles)]_vars

(***************************************************************************)
(* Properties of the format-ID allocator.                                  *)
(***************************************************************************)
MinOf(S) == CHOOSE x \in S : \A y \in S : x <= y
UsedPlans == {g_fmt[i] : i \in DOMAIN g_fmt} \ {NULL}
IdsOf(p) == {i \in DOMAIN g_fmt : g_fmt[i] = p}
\* The number of format IDs that the directive of a plan asks for.
IdsAsked(plan) ==
    CASE plan.msg_type = "TYPE_MSG0_4" -> Pow2(plan.msg_len \div 4)
      [] plan.msg_type = "TYPE_EXT_MSG" ->
            (plan.ext_data_mask + 1) * Pow2((plan.msg_len - 4) \div 4)
      [] OTHER -> 16
\* The last directive asked the allocator for format IDs and got them / not.
AllocOk(l) == l.alloc > 0 /\ l.fmt_id # FMT_ID_NOT_ASSIGNED
AllocFailed(l) == l.alloc > 0 /\ l.fmt_id = FMT_ID_NOT_ASSIGNED
FreeAt(g, f, k) == \A i \in 0 .. k - 1 : f + i \in DOMAIN g /\ g[f + i] = NULL
\* The cursor moved past the filled slots, never beyond topmost.
CursorPast(g, c) ==
    MinOf({a \in c .. MAX_FMT_IDS : a >= topmost_fmt_id \/ a \notin DOMAIN g \/ g[a] = NULL})

\* C1: the format IDs that hold one plan are exactly one range of 2^k IDs that
\* starts at a multiple of 2^k, 2^k being the number of IDs the plan's directive
\* asks for; so two indices share a plan only inside one such range, and a plan
\* never lies in two ranges.
C1_AlignedRanges ==
    \A p \in UsedPlans :
        LET ids == IdsOf(p)
            k == Cardinality(ids)
            lo == MinOf(ids)
        IN  /\ p \in DOMAIN plans
            /\ k = IdsAsked(plans[p])
            /\ is_power_of_two(k)
            /\ lo % k = 0
            /\ ids = lo .. lo + k - 1

\* Two plans of different size lie in the table, the second one after a gap
\* that the alignment left free.
C1_Witness ==
    \E p, q \in UsedPlans :
        /\ Cardinality(IdsOf(p)) = 1
        /\ Cardinality(IdsOf(q)) >= 4
        /\ MinOf(IdsOf(p)) < MinOf(IdsOf(q))
        /\ g_fmt[MinOf(IdsOf(q)) - 1] = NULL

\* C3: every format ID that holds a plan is below topmost; the two IDs of the
\* system messages stay free during parsing.
C3_TopReserved ==
    \A i \in DOMAIN g_fmt : g_fmt[i] # NULL => i < topmost_fmt_id

\* A plan was stored right below the limit the allocator keeps.
C3_Witness ==
    /\ AllocOk(last)
    /\ last.fmt_id + last.alloc = topmost_fmt_id - 1

\* C4: a successful allocation of k IDs leaves the cursor at the first free slot
\* at or above its old position, returns the lowest multiple of k at or above
\* the cursor where k slots are free, stores the new plan in exactly those k
\* slots and changes no other slot.
C4_Allocation ==
    [][AllocOk(last') =>
        LET k == last'.alloc
            f == last'.fmt_id
            c == CursorPast(g_fmt, fmt_align_value)
        IN  /\ fmt_align_value' = c
            /\ f = MinOf({x \in c .. MAX_FMT_IDS : x % k = 0 /\ FreeAt(g_fmt, x, k)})
            /\ \E p \in DOMAIN plans' \ UsedPlans :
                    /\ p # NULL
                    /\ \A i \in DOMAIN g_fmt :
                            g_fmt'[i] = IF f <= i /\ i < f + k THEN p ELSE g_fmt[i]
      ]_vars

\* An allocation of several IDs succeeded above filled slots that the cursor
\* had to pass.
C4_Witness ==
    /\ AllocOk(last)
    /\ last.alloc >= 2
    /\ last.fmt_id > fmt_align_value
    /\ fmt_align_value > 0
    /\ g_fmt[fmt_align_value - 1] # NULL

\* C5: an allocation of k IDs succeeds whenever k free slots start at a
\* multiple of k at or above the cursor and end at or below topmost.
C5_FailsOnlyAboveTopmost ==
    [][(last'.alloc > 0 /\
        \E x \in CursorPast(g_fmt, fmt_align_value) .. topmost_fmt_id :
            /\ x % last'.alloc = 0
            /\ FreeAt(g_fmt, x, last'.alloc)
            /\ x + last'.alloc <= topmost_fmt_id)
       => AllocOk(last')]_vars

\* C6: a failed allocation writes no slot and leaves fmt_ids_defined alone; the
\* directive is rejected with a parse error recorded: ERR_PARSE_FMT_ID_NOT_ASSIGNED,
\* or the length error of MSGN<n> that parse_msgn_num() raises before it returns
\* the failure value.
C6_CleanFailure ==
    [][AllocFailed(last') =>
        /\ g_fmt' = g_fmt
        /\ fmt_ids_defined' = fmt_ids_defined
        /\ last'.jumped
        /\ last'.err \in {"ERR_PARSE_FMT_ID_NOT_ASSIGNED", "ERR_PARSE_MSG0_NOT_ALLOWED",
                         "ERR_PARSE_MSG_DEFINITION_TOO_BIG"}
        /\ last'.err # "ERR_PARSE_FMT_ID_NOT_ASSIGNED" => last'.op = "MSGN"
        /\ errors_counted' > errors_counted
      ]_vars

\* The allocation failed on an aligned range that begins below topmost and ends
\* above it.
C6_Witness ==
    /\ AllocFailed(last)
    /\ AlignFmtId(fmt_align_value, last.alloc) < topmost_fmt_id
    /\ AlignFmtId(fmt_align_value, last.alloc) + last.alloc > topmost_fmt_id

\* C7 as stated: FMT_START(v) with v below fmt_ids_defined is rejected with an
\* error and leaves both cursors alone; with v not below, it sets
\* fmt_ids_defined to v.
C7_StartAsStated ==
    [][(last'.op = "FMT_START" /\ last'.arg >= 0) =>
        IF last'.arg < fmt_ids_defined
        THEN /\ last'.jumped
             /\ errors_counted' > errors_counted
             /\ fmt_ids_defined' = fmt_ids_defined
             /\ fmt_align_value' = fmt_align_value
        ELSE fmt_ids_defined' = last'.arg
      ]_vars

\* C7 amended: FMT_START(v) with v below fmt_ids_defined, or with v at or above
\* topmost, is rejected with an error and leaves both cursors alone; any other
\* v becomes the value of both cursors.
C7_StartAmended ==
    [][(last'.op = "FMT_START" /\ last'.arg >= 0) =>
        IF last'.arg < fmt_ids_defined \/ last'.arg >= topmost_fmt_id
        THEN /\ last'.jumped
             /\ errors_counted' > errors_counted
             /\ fmt_ids_defined' = fmt_ids_defined
             /\ fmt_align_value' = fmt_align_value
        ELSE /\ fmt_ids_defined' = last'.arg
             /\ fmt_align_value' = last'.arg
      ]_vars

\* FMT_START was rejected because it would move backward.
C7_Witness ==
    /\ last.op = "FMT_START"
    /\ last.err = "ERR_PARSE_FMT_START_ALIGNMENT"
    /\ last.arg < fmt_ids_defined
    /\ last.arg >= 0

\* C2: every slot of the plan table is NULL or points to a plan whose name and
\* kind are set and whose length is a multiple of 4.
C2_PlansInitialized ==
    \A i \in DOMAIN g_fmt :
        g_fmt[i] # NULL =>
            /\ g_fmt[i] \in DOMAIN plans
            /\ plans[g_fmt[i]].message_name # NoName
            /\ plans[g_fmt[i]].msg_type \in
                    {"TYPE_MSG0_4", "TYPE_MSGN", "TYPE_EXT_MSG", "TYPE_MSGX"}
            /\ plans[g_fmt[i]].msg_len % 4 = 0

(***************************************************************************)
(* Properties of the enum table and of the error recovery.                 *)
(***************************************************************************)
\* Index i holds a registered entry: a filter, or an entry counted by enums_found.
Registered(i) ==
    \/ i < filter_enums
    \/ (NUMBER_OF_FILTER_BITS <= i /\ i < enums_found)

\* C8: no directive, accepted or rejected, changes the name or the kind of a
\* registered entry of the enum table.
C8_EntriesStay ==
    [][\A i \in DOMAIN enums : Registered(i) => enums'[i] = enums[i]]_vars

\* The parse errors that the code raises as fatal ones.
FatalParseErrors ==
    {"ERR_PARSE_FMT_ID_NOT_ASSIGNED", "ERR_PARSE_FMT_ALIGN_OVER_MAX", "ERR_PARSE_MAX_ENUMS"}
\* The last step parsed a directive (it did not leave the line loop).
Parsed == last.op \notin {"none", "IGNORED", "EOF", "ABANDON"}

TOTAL_ERRORS == FIRST_FATAL_ERROR + NumFatalErrors
FATAL_LAST == TOTAL_ERRORS - 1

MainStep(pc, errors, idx, size, finished, code) ==
    /\ mpc' = pc
    /\ total_errors' = errors
    /\ index' = idx
    /\ in_size' = size
    /\ binary_file_decoding_finished' = finished
    /\ exit_code' = code
    /\ UNCHANGED <<parse_vars, decode_vars>>

\* parse_fmt_file() returns with n errors counted.
ParseFmtFile ==
    \E n \in 0 .. MAX_ERRORS_REPORTED + 1 :
        /\ mpc = "parse"
        /\ MainStep("parsed", n, index, in_size, binary_file_decoding_finished, exit_code)

\* "if (g_msg.total_errors > 0) { ...; return EXIT_FATAL_FMT_PARSING_ERRORS; }"
ReturnFmtErrors ==
    /\ mpc = "parsed"
    /\ total_errors > 0
    /\ MainStep("return_fmt_errors", total_errors, index, in_size,
                binary_file_decoding_finished, EXIT_FATAL_FMT_PARSING_ERRORS)

\* The value that main() returns at its end.
ret_value(errors, finished) ==
    IF errors > 0
    THEN IF finished THEN EXIT_NON_FATAL_DECODING_ERRORS_DETECTED
                     ELSE EXIT_FATAL_DECODING_ERRORS_DETECTED
    ELSE 0

\* -c: check the syntax and compile only; the binary file is not processed.
CheckSyntaxOnly ==
    /\ mpc = "parsed"
    /\ total_errors = 0
    /\ MainStep("return_end", total_errors, index, in_size,
                binary_file_decoding_finished, 0)

\* report_fatal_error_and_exit(): the code passed to exit().
fatal_exit_code(error_code) ==
    IF error_code >= TOTAL_ERRORS \/ error_code < FIRST_FATAL_ERROR
    THEN FATAL_LAST
    ELSE error_code

\* Process_binary_data_file() up to the call of process_bin_data_worker().
LoadBinaryData ==
    \E size \in 1 .. MaxWords :
        /\ mpc = "parsed"
        /\ total_errors = 0
        /\ MainStep("decode", total_errors, 0, size, binary_file_decoding_finished,
                    exit_code)

\* The header or the data cannot be loaded: report_fatal_error_and_exit().
LoadFails ==
    \E error_code \in FIRST_FATAL_ERROR - 1 .. TOTAL_ERRORS :
        /\ mpc = "parsed"
        /\ total_errors = 0
        /\ MainStep("exit_fatal_load", total_errors, index, in_size,
                    binary_file_decoding_finished, fatal_exit_code(error_code))

\* One pass of the loop in process_bin_data_worker(): assemble_message() finds
\* a message, a bad block, an unfinished block or a too long message in the
\* words idx .. next - 1; errors is the number of problems reported for it.
DecodeMessage ==
    \E next \in index + 1 .. in_size, errors \in 0 .. 1 :
        /\ mpc = "decode"
        /\ index < in_size
        /\ total_errors + errors <= MaxDecodeErrors
        /\ MainStep("decode", total_errors + errors, next, in_size,
                    binary_file_decoding_finished, exit_code)

\* A fatal error while a message is decoded or more data is loaded.
DecodeFatal ==
    \E error_code \in FIRST_FATAL_ERROR - 1 .. TOTAL_ERRORS :
        /\ mpc = "decode"
        /\ index < in_size
        /\ MainStep("exit_fatal_decode", total_errors, index, in_size,
                    binary_file_decoding_finished, fatal_exit_code(error_code))

\* An exception in Process_binary_data_file(): the __except branch of main().
DecodeException ==
    /\ mpc = "decode"
    /\ index < in_size
    /\ MainStep("return_exception_bin", total_errors, index, in_size,
                binary_file_decoding_finished, EXIT_FATAL_EXCEPTION_DETECTED_BIN)

\* assemble_message() leaves its loop with index >= in_size:
\* check_last_message_in_the_buffer() sets binary_file_decoding_finished and
\* returns END_OF_BUFFER, the worker and Process_binary_data_file() return,
\* and main() returns ret_value.
EndOfBuffer ==
    /\ mpc = "decode"
    /\ index >= in_size
    /\ MainStep("return_end", total_errors, index, in_size,
                TRUE, ret_value(total_errors, TRUE))

NextMain ==
    \/ ParseFmtFile \/ ReturnFmtErrors \/ CheckSyntaxOnly
    \/ LoadBinaryData \/ LoadFails
    \/ DecodeMessage \/ DecodeFatal \/ DecodeException
    \/ EndOfBuffer

SpecMain == InitParse /\ [][NextMain]_vars

\* C10: main() ends with 0 when no error was counted, with 1 when the parsing of
\* the format definitions counted an error (the decoding is then not started),
\* with 2 when a fatal error stopped the decoding, and with 3 when the decoding
\* reached the end of the buffer with an error counted.
C10_ExitCodes ==
    /\ (mpc = "return_end" /\ total_errors = 0) => exit_code = 0
    /\ mpc = "return_fmt_errors" =>
            (exit_code = EXIT_FATAL_FMT_PARSING_ERRORS /\ in_size = 0 /\ index = 0)
    /\ mpc = "exit_fatal_decode" => exit_code = EXIT_FATAL_DECODING_ERRORS_DETECTED
    /\ (mpc = "return_end" /\ total_errors > 0) =>
            exit_code = EXIT_NON_FATAL_DECODING_ERRORS_DETECTED

(***************************************************************************)
(* The message reassembler: process_bin_data.c.                            *)
(* A word of the buffer is a record: a DATA word (bit 0 = 0) holds the     *)
(* value v = data >> 1, a FMT word (bit 0 = 1) holds the format ID         *)
(* id = data >> fmt_id_shift and the normalized low timestamp word ts, and *)
(* "FFFF" is the word 0xFFFFFFFF of an unfinished write.                   *)
(***************************************************************************)
DataWord(v) == [kind |-> "DATA", id |-> 0, ts |-> 0, v |-> v]
FmtWord(id, ts) == [kind |-> "FMT", id |-> id, ts |-> ts, v |-> 0]
UnfinishedWord == [kind |-> "FFFF", id |-> 0, ts |-> 0, v |-> 0]

\* data & g_msg.hdr_data.timestamp_and_index_mask: the timestamp and the
\* format ID without its lowest four bits.
TagOf(data) == <<data.id \div 16, data.ts>>

\* Bit k of x.
BitOf(x, k) == (x \div Pow2(k)) % 2

\* The part of g_msg that one pass of process_bin_data_worker() works on;
\* reported lists the calls of report_problem() of the pass and printed the
\* errors that print_decoding_errors() has written.
Asm ==
    [index |-> index, asm_words |-> asm_words, assembled_msg |-> assembled_msg,
     fmt_id |-> msg_fmt_id, additional_data |-> 0, asm_size |-> 0,
     timestamp |-> timestamp, message_cnt |-> message_cnt,
     total_errors |-> total_errors, error_counter |-> error_counter,
     error_log |-> error_log, msg_error_counter |-> msg_error_counter,
     bad_packet_words |-> 0, unfinished_words |-> 0,
     finished |-> binary_file_decoding_finished, raw_data |-> <<>>,
     reported |-> <<>>, printed |-> <<>>, values_printed |-> FALSE,
     tstamp_branch |-> "none", scans |-> 0, time_diff |-> 0, rez |-> "none"]

\* The loop of get_packet_length() that looks for the plan of the format ID
\* below it; p_fmt is the plan read last.
RECURSIVE PlanBelow(_, _)
PlanBelow(id, p_fmt) ==
    IF id % 16 # 0
    THEN IF g_fmt[id] # NULL THEN [fmt_id |-> id, p_fmt |-> g_fmt[id]]
         ELSE PlanBelow(id - 1, g_fmt[id])
    ELSE [fmt_id |-> id, p_fmt |-> p_fmt]

\* PACKET_LENGTH_UNKNOWN stands for 0xFFFFFFFF.
PACKET_LENGTH_UNKNOWN == -1

\* No format ID has a known length.
get_packet_length_unknown(id) == PACKET_LENGTH_UNKNOWN

\* get_packet_length(): the expected length of the sub-packet, FMT word
\* included.
get_packet_length(id) ==
    IF id >= MAX_FMT_IDS THEN PACKET_LENGTH_UNKNOWN
    ELSE
    LET f == PlanBelow(id, g_fmt[id]) IN
    IF f.p_fmt = NULL THEN PACKET_LENGTH_UNKNOWN
    ELSE
    LET len == plans[f.p_fmt].msg_len \div 4
        type == plans[g_fmt[f.fmt_id]].msg_type
    IN  1 + CASE type = "TYPE_MSG0_4"  -> len
              [] type = "TYPE_EXT_MSG" -> IF len > 0 THEN len - 1 ELSE len
              [] type = "TYPE_MSGN"    -> IF len = 0 \/ len > 4 THEN 4 ELSE len
              [] type = "TYPE_MSGX"    -> 4

\* message_complete(): TRUE when no further sub-packet is looked for.
message_complete(d, no_words) ==
    IF no_words < 5 THEN TRUE
    ELSE IF d.fmt_id < MAX_FMT_IDS /\ g_fmt[d.fmt_id] # NULL
    THEN LET p_fmt == plans[g_fmt[d.fmt_id]]
             length == IF p_fmt.msg_type = "TYPE_EXT_MSG" /\ p_fmt.msg_len >= 4
                       THEN p_fmt.msg_len - 4 ELSE p_fmt.msg_len
         IN  IF p_fmt.msg_len = 0 THEN FALSE
             ELSE length <= d.asm_words * 4
    ELSE FALSE

\* The first DATA word takes bit 0.
redistribute_from_first(raw_data, n, additional_data) ==
    [i \in 1 .. n |-> [low31 |-> raw_data[i].v, bit31 |-> BitOf(additional_data, i - 1)]]

\* The DATA words of a sub-packet as they are put into the assembled message:
\* bit 31 of the k-th word from the end is bit k of additional_data.
Redistribute(raw_data, n, additional_data) ==
    [i \in 1 .. n |-> [low31 |-> raw_data[i].v, bit31 |-> BitOf(additional_data, n - i)]]

\* Every word of the sub-packet is bad and nothing is read again.
process_whole_packet_as_bad(d, no_words, data) ==
    [d EXCEPT !.fmt_id = data.id, !.timestamp.l = data.ts,
              !.bad_packet_words = no_words, !.rez = "BAD_BLOCK"]

\* process_the_message_packet() that rewinds by all the words of a sub-packet
\* that is longer than the length of its definition.
process_the_message_packet_rewinds_all(d, no_words, data) ==
    LET id == data.id
        msg_len == get_packet_length(id)
        d1 == [d EXCEPT !.fmt_id = id, !.timestamp.l = data.ts]
    IN  IF msg_len = PACKET_LENGTH_UNKNOWN /\ no_words > 5
        THEN [d1 EXCEPT !.bad_packet_words = no_words - 1, !.index = @ - 1,
                        !.rez = "BAD_BLOCK"]
        ELSE IF msg_len # PACKET_LENGTH_UNKNOWN /\ no_words > msg_len
        THEN [d1 EXCEPT !.bad_packet_words = no_words - msg_len, !.index = @ - no_words,
                        !.rez = "BAD_BLOCK"]
        ELSE
        LET additional_data ==
                IF g_fmt[id] = NULL \/ plans[g_fmt[id]].msg_type # "TYPE_EXT_MSG"
                THEN id % 16 ELSE id
            n == no_words - 1
            d2 == [d1 EXCEPT !.additional_data = additional_data \div Pow2(n),
                             !.fmt_id = id - (id % Pow2(n)),
                             !.assembled_msg =
                                 @ \o Redistribute(d.raw_data, n, additional_data),
                             !.asm_words = @ + n]
        IN  IF msg_len = PACKET_LENGTH_UNKNOWN THEN [d2 EXCEPT !.rez = "DATA_FOUND"]
            ELSE IF message_complete(d2, no_words) THEN [d2 EXCEPT !.rez = "DATA_FOUND"]
            ELSE [d2 EXCEPT !.rez = "FMT_WORD_OK"]

\* process_the_message_packet(): d.raw_data holds the no_words words of the
\* sub-packet, data is its FMT word.
process_the_message_packet(d, no_words, data) ==
    LET id == data.id
        msg_len == get_packet_length(id)
        d1 == [d EXCEPT !.fmt_id = id, !.timestamp.l = data.ts]
    IN  IF msg_len = PACKET_LENGTH_UNKNOWN /\ no_words > 5
        THEN [d1 EXCEPT !.bad_packet_words = no_words - 1, !.index = @ - 1,
                        !.rez = "BAD_BLOCK"]
        ELSE IF msg_len # PACKET_LENGTH_UNKNOWN /\ no_words > msg_len
        THEN [d1 EXCEPT !.bad_packet_words = no_words - msg_len, !.index = @ - msg_len,
                        !.rez = "BAD_BLOCK"]
        ELSE
        LET additional_data ==
                IF g_fmt[id] = NULL \/ plans[g_fmt[id]].msg_type # "TYPE_EXT_MSG"
                THEN id % 16 ELSE id
            n == no_words - 1
            d2 == [d1 EXCEPT !.additional_data = additional_data \div Pow2(n),
                             !.fmt_id = id - (id % Pow2(n)),
                             !.assembled_msg =
                                 @ \o Redistribute(d.raw_data, n, additional_data),
                             !.asm_words = @ + n]
        IN  IF msg_len = PACKET_LENGTH_UNKNOWN THEN [d2 EXCEPT !.rez = "DATA_FOUND"]
            ELSE IF message_complete(d2, no_words) THEN [d2 EXCEPT !.rez = "DATA_FOUND"]
            ELSE [d2 EXCEPT !.rez = "FMT_WORD_OK"]

\* Only the first word 0xFFFFFFFF is skipped.
skip_one_unfinished_word(idx) == 1

\* skip_unfinished_words(): the number of 0xFFFFFFFF words from idx on.
RECURSIVE skip_unfinished_words(_)
skip_unfinished_words(idx) ==
    IF idx < in_size /\ rte_buffer[idx + 1].kind = "FFFF"
    THEN 1 + skip_unfinished_words(idx + 1)
    ELSE 0

\* The word 0xFFFFFFFF is reported and left where it is.
unfinished_word_kept(d, packet_words) ==
    [d EXCEPT !.unfinished_words = 1, !.rez = "UNFINISHED_BLOCK"]

\* What find_fmt_word() does when it meets the word 0xFFFFFFFF with
\* packet_words words of the sub-packet collected.
unfinished_word_found(d, packet_words) ==
    IF d.asm_words > 0
    THEN [d EXCEPT !.index = @ - packet_words, !.raw_data = <<>>, !.rez = "DATA_FOUND"]
    ELSE IF packet_words > 0
    THEN [d EXCEPT !.bad_packet_words = packet_words, !.rez = "BAD_BLOCK"]
    ELSE LET no_unfinished == skip_unfinished_words(d.index)
         IN  [d EXCEPT !.unfinished_words = no_unfinished, !.index = @ + no_unfinished,
                       !.rez = "UNFINISHED_BLOCK"]

\* find_fmt_word() without the limit of the number of the collected words.
RECURSIVE find_fmt_word_unlimited(_)
find_fmt_word_unlimited(d) ==
    LET packet_words == Len(d.raw_data) IN
    IF d.index >= in_size
    THEN [d EXCEPT !.bad_packet_words = packet_words, !.rez = "BAD_BLOCK"]
    ELSE
    LET data == rte_buffer[d.index + 1] IN
    IF data.kind = "FFFF" THEN unfinished_word_found(d, packet_words)
    ELSE
    LET d1 == [d EXCEPT !.index = @ + 1, !.raw_data = Append(@, data)]
    IN  IF data.kind = "FMT" THEN [d1 EXCEPT !.rez = "FMT_WORD_OK"]
        ELSE find_fmt_word_unlimited(d1)

\* find_fmt_word(): d.raw_data holds the words collected so far; with
\* FMT_WORD_OK its last word is the FMT word.
RECURSIVE find_fmt_word(_)
find_fmt_word(d) ==
    LET packet_words == Len(d.raw_data) IN
    IF packet_words >= MAX_RAW_DATA_SIZE \/ d.index >= in_size
    THEN [d EXCEPT !.bad_packet_words = packet_words, !.rez = "BAD_BLOCK"]
    ELSE
    LET data == rte_buffer[d.index + 1] IN
    IF data.kind = "FFFF" THEN unfinished_word_found(d, packet_words)
    ELSE
    LET d1 == [d EXCEPT !.index = @ + 1, !.raw_data = Append(@, data)]
    IN  IF data.kind = "FMT" THEN [d1 EXCEPT !.rez = "FMT_WORD_OK"]
        ELSE find_fmt_word(d1)

\* check_last_message_in_the_buffer()
check_last_message_in_the_buffer(d, packet_words) ==
    LET d1 == [d EXCEPT !.finished = TRUE] IN
    IF d.asm_words > 0 /\ packet_words = 0 THEN [d1 EXCEPT !.rez = "DATA_FOUND"]
    ELSE IF packet_words > 0
    THEN [d1 EXCEPT !.bad_packet_words = packet_words, !.rez = "BAD_BLOCK"]
    ELSE [d1 EXCEPT !.rez = "END_OF_BUFFER"]

\* Any FMT word among the next five words continues the message.
next_fmt_word_continues(tag, idx, no_words) ==
    \E q \in idx + 1 .. idx + 5 :
        /\ q <= in_size
        /\ rte_buffer[q].kind = "FMT"
        /\ \A k \in idx + 1 .. q - 1 : rte_buffer[k].kind = "DATA"

\* next_packet_is_the_continuation_of_the_message(): no_words words were
\* looked at from idx on.
RECURSIVE next_packet_is_the_continuation_of_the_message(_, _, _)
next_packet_is_the_continuation_of_the_message(tag, idx, no_words) ==
    IF idx >= in_size \/ no_words + 1 > 5 THEN FALSE
    ELSE LET data == rte_buffer[idx + 1]
         IN  IF data.kind = "FFFF" THEN FALSE
             ELSE IF data.kind = "FMT" THEN TagOf(data) = tag
             ELSE next_packet_is_the_continuation_of_the_message(tag, idx + 1,
                                                                 no_words + 1)

\* The loop without the limit of the message length.
RECURSIVE assemble_loop_unlimited(_, _)
assemble_loop_unlimited(d, packet_words) ==
    IF d.index >= in_size THEN check_last_message_in_the_buffer(d, packet_words)
    ELSE
    LET f == find_fmt_word([d EXCEPT !.raw_data = <<>>]) IN
    IF f.rez # "FMT_WORD_OK" THEN f
    ELSE
    LET data == f.raw_data[Len(f.raw_data)]
        q == process_the_message_packet(f, Len(f.raw_data), data)
    IN  IF q.rez # "FMT_WORD_OK" THEN q
        ELSE IF ~next_packet_is_the_continuation_of_the_message(TagOf(data), q.index, 0)
        THEN [q EXCEPT !.rez = "DATA_FOUND"]
        ELSE assemble_loop_unlimited(q, Len(f.raw_data))

\* The loop of assemble_message(); packet_words is the length of the
\* sub-packet handled last.
RECURSIVE assemble_loop(_, _)
assemble_loop(d, packet_words) ==
    IF d.index >= in_size THEN check_last_message_in_the_buffer(d, packet_words)
    ELSE
    LET f == find_fmt_word([d EXCEPT !.raw_data = <<>>]) IN
    IF f.rez # "FMT_WORD_OK" THEN f
    ELSE
    LET data == f.raw_data[Len(f.raw_data)]
        q == process_the_message_packet(f, Len(f.raw_data), data)
    IN  IF q.rez # "FMT_WORD_OK" THEN q
        ELSE IF ~next_packet_is_the_continuation_of_the_message(TagOf(data), q.index, 0)
        THEN [q EXCEPT !.rez = "DATA_FOUND"]
        ELSE IF q.asm_words >= 4 * hdr_data.max_msg_blocks
        THEN [q EXCEPT !.rez = "MESSAGE_TOO_LONG"]
        ELSE assemble_loop(q, Len(f.raw_data))

\* assemble_message()
assemble_message(d) ==
    assemble_loop([d EXCEPT !.asm_words = 0, !.assembled_msg = <<>>], 0)

(***************************************************************************)
(* Errors of the decoding: errors.c and print_helper.c.  The error codes   *)
(* are kept by name.                                                       *)
(***************************************************************************)
DecodeErrors ==
    {"ERR_BAD_BLOCK_FOUND", "ERR_UNFINISHED_BLOCK", "ERR_MESSAGE_TOO_LONG",
     "ERR_NO_FORMATTING_DEFINITION_FOR_CODE", "ERR_MSG_SIZE_DOES_NOT_MATCH_DEFINITION",
     "ERR_BAD_SYSTEM_MESSAGE", "ERR_TIMESTAMP_FREQUENCY_ZERO", "ERR_UNKNOWN_SYS_CODE",
     "ERR_MESSAGE_MUST_CONTAIN_ONE_FMT_DEFINITION", "ERR_UNWANTED_EXTENDED_DATA",
     "ERR_MSGX_SIZE_EMPTY", "ERR_MSGX_SIZE_TOO_LARGE", "ERR_MSGX_SIZE_TOO_SMALL",
     "ERR_MSGX_CORRUPTED", "ERR_READ_BIN_FILE_PROBLEM", "ERR_INDEX_SHOULD_BE_ZERO",
     "ERR_BIN_FILE_CONTAINS_TOO_MUCH_DATA", "ERR_NOT_ENOUGH_DATA_IN_BIN_FILE",
     "ERR_MESSAGE_FILE_SIZE_TRUNCATED", "ERR_INDEX_IN_CIRCULAR_BUFFER_OUT_OF_RANGE",
     "ERR_VALUE_NOT_IN_MESSAGE", "ERR_INTERNAL_ERROR"}

NoErrorsCounted == [e \in DecodeErrors |-> 0]

NoErrorLog ==
    [i \in 1 .. MAX_ERRORS_IN_SINGLE_MESSAGE |-> [error_number |-> "", value_number |-> 0]]

\* report_problem() and report_problem2()
report_problem(g, error_code, additional_data) ==
    [g EXCEPT !.total_errors = @ + 1,
              !.error_counter[error_code] = @ + 1,
              !.reported = Append(@, <<error_code, additional_data>>)]

\* An error that finds the log of the message full is dropped.
save_decoding_error_uncounted(g, e) ==
    IF g.msg_error_counter >= MAX_ERRORS_IN_SINGLE_MESSAGE THEN g
    ELSE [g EXCEPT !.total_errors = @ + 1,
                   !.error_counter[e.error_number] = @ + 1,
                   !.error_log[g.msg_error_counter + 1] = e,
                   !.msg_error_counter = @ + 1]

\* save_decoding_error(): e is the error and the number of the value.
save_decoding_error(g, e) ==
    LET g1 == [g EXCEPT !.total_errors = @ + 1,
                        !.error_counter[e.error_number] = @ + 1]
    IN  IF g.msg_error_counter >= MAX_ERRORS_IN_SINGLE_MESSAGE THEN g1
        ELSE [g1 EXCEPT !.error_log[g.msg_error_counter + 1] = e,
                        !.msg_error_counter = @ + 1]

\* The errors that the values of one message save while they are printed.
RECURSIVE save_decoding_errors(_, _)
save_decoding_errors(g, errs) ==
    IF errs = <<>> THEN g
    ELSE save_decoding_errors(save_decoding_error(g, Head(errs)), Tail(errs))

\* print_decoding_errors() with print_decoding_errors_to_file()
print_decoding_errors(g) ==
    IF g.msg_error_counter # 0
    THEN LET n == IF g.msg_error_counter >= MAX_ERRORS_IN_SINGLE_MESSAGE
                  THEN MAX_ERRORS_IN_SINGLE_MESSAGE ELSE g.msg_error_counter
         IN  [g EXCEPT !.msg_error_counter = n,
                       !.printed = [i \in 1 .. n |-> g.error_log[i]]]
    ELSE g

(***************************************************************************)
(* 32-bit values that may have bit 31 set are kept as the signed number    *)
(* with the same bits.                                                     *)
(***************************************************************************)
MinInt32 == -2147483647 - 1

\* The value of a word of the assembled message.
Word32(w) == IF w.bit31 = 1 THEN w.low31 + MinInt32 ELSE w.low31

\* h + 1 on uint32_t
UInc(h) == IF h = 2147483647 THEN MinInt32 ELSE h + 1

(***************************************************************************)
(* Timestamps: statistics.c and timestamp.h.                               *)
(***************************************************************************)
\* reset_statistics()
reset_statistics(g) ==
    [g EXCEPT !.timestamp.searched_to_index = 0,
              !.timestamp.no_previous_tstamp = TRUE,
              !.timestamp.mark_problematic_tstamps = FALSE,
              !.timestamp.old = 0]

\* fmt_id_valid(): data is a word with bit 0 set.
fmt_id_valid(data, data_words) ==
    IF data.kind = "FFFF" THEN FALSE
    ELSE IF data.id >= MAX_FMT_IDS THEN FALSE
    ELSE IF g_fmt[data.id] = NULL THEN FALSE
    ELSE LET p_fmt == plans[g_fmt[data.id]]
             length == p_fmt.msg_len \div 4
         IN  CASE p_fmt.msg_type = "TYPE_MSGX" -> TRUE
               [] p_fmt.msg_type = "TYPE_MSGN" ->
                      \/ length = 0
                      \/ data_words = 4
                      \/ data_words % 4 = length % 4
               [] p_fmt.msg_type = "TYPE_EXT_MSG" -> length - 1 = data_words
               [] p_fmt.msg_type = "TYPE_MSG0_4" -> length = data_words

\* The difference of two timestamps as a value of 32 bits: it is reduced to
\* the half period on either side of 0.
tstamp_difference_modular(new_tstamp_l, old_tstamp_l) ==
    ((new_tstamp_l - old_tstamp_l + (NORMALIZED_TSTAMP_PERIOD \div 2))
         % NORMALIZED_TSTAMP_PERIOD) - (NORMALIZED_TSTAMP_PERIOD \div 2)

\* "int64_t time_diff = (int64_t)new_tstamp_l - (int64_t)(*old_tstamp_l);" of
\* small_tstamp_difference() and of process_timestamp_value().
tstamp_difference(new_tstamp_l, old_tstamp_l) == new_tstamp_l - old_tstamp_l

\* A difference between the limits is taken as a step forward.
tstamp_compare_unsigned(time_diff, old, no_previous_tstamp) ==
    IF /\ time_diff >= param.max_negative_tstamp_diff
       /\ time_diff <= param.max_positive_tstamp_diff
    THEN "forward" ELSE "large"

\* The four branches of the timestamp comparison that small_tstamp_difference()
\* and process_timestamp_value() share; old is g_msg.timestamp.old.
tstamp_compare(time_diff, old, no_previous_tstamp) ==
    IF time_diff >= 0 /\ time_diff <= param.max_positive_tstamp_diff THEN "forward"
    ELSE IF time_diff < 0 /\ time_diff >= param.max_negative_tstamp_diff THEN "backward"
    ELSE IF /\ old >= NORMALIZED_TSTAMP_PERIOD \div 2
            /\ time_diff <= -(NORMALIZED_TSTAMP_PERIOD - param.max_positive_tstamp_diff)
            /\ ~no_previous_tstamp
    THEN "overflow"
    ELSE IF /\ old < NORMALIZED_TSTAMP_PERIOD \div 2
            /\ time_diff >= NORMALIZED_TSTAMP_PERIOD + param.max_negative_tstamp_diff
            /\ ~no_previous_tstamp
    THEN "previous_period"
    ELSE "large"

\* small_tstamp_difference(): c holds tstamp_h_counter and old_tstamp_l.
small_tstamp_difference(g, c, new_tstamp_l) ==
    LET branch == tstamp_compare(tstamp_difference(new_tstamp_l, c.old_tstamp_l),
                                 g.timestamp.old, FALSE)
    IN  CASE branch = "forward" ->
                 [ok |-> TRUE, tstamp_h_counter |-> c.tstamp_h_counter,
                  old_tstamp_l |-> new_tstamp_l]
          [] branch = "backward" -> [c EXCEPT !.ok = TRUE]
          [] branch = "overflow" ->
                 [ok |-> TRUE, tstamp_h_counter |-> c.tstamp_h_counter + 1,
                  old_tstamp_l |-> new_tstamp_l]
          [] branch = "previous_period" -> [c EXCEPT !.ok = TRUE]
          [] branch = "large" -> [c EXCEPT !.ok = FALSE]

\* The loop of long_timestamp_found(): the words from idx on.
RECURSIVE long_timestamp_search(_, _, _, _)
long_timestamp_search(g, idx, c, data_words) ==
    IF idx >= in_size
    THEN [found |-> FALSE, g |-> g]
    ELSE
    LET data == rte_buffer[idx + 1]
        g1 == [g EXCEPT !.timestamp.searched_to_index = idx + 1]
    IN  IF data.kind = "DATA"
        THEN IF data_words + 1 > 4 THEN [found |-> FALSE, g |-> g1]
             ELSE long_timestamp_search(g1, idx + 1, c, data_words + 1)
        ELSE IF ~fmt_id_valid(data, data_words)
        THEN long_timestamp_search(g1, idx + 1, c, 0)
        ELSE IF data.id = topmost_fmt_id /\ data_words = 1
        THEN [found |-> FALSE, g |-> g1]
        ELSE IF data.id = 0 /\ data_words = 1
        THEN LET timestamp_h == rte_buffer[idx].v
                 s == small_tstamp_difference(g1, c, data.ts)
             IN  IF timestamp_h >= c.tstamp_h_counter /\ s.ok
                 THEN [found |-> TRUE,
                       g |-> [g1 EXCEPT !.timestamp.h = timestamp_h - s.tstamp_h_counter]]
                 ELSE [found |-> FALSE, g |-> g1]
        ELSE LET s == small_tstamp_difference(g1, c, data.ts)
             IN  IF ~s.ok THEN [found |-> FALSE, g |-> g1]
                 ELSE long_timestamp_search(g1, idx + 1, s, 0)

\* long_timestamp_found()
long_timestamp_found(g) ==
    IF ~hdr_data.long_timestamp_used THEN [found |-> FALSE, g |-> g]
    ELSE IF g.index >= in_size THEN [found |-> FALSE, g |-> g]
    ELSE long_timestamp_search(g, g.index,
                               [ok |-> TRUE, tstamp_h_counter |-> 0,
                                old_tstamp_l |-> g.timestamp.l], 0)

\* The high word is incremented at every overflow of the low word.
process_timestamp_value_unsuppressed(g) ==
    LET t == g.timestamp
        branch == tstamp_compare(tstamp_difference(t.l, t.old), t.old,
                                 t.no_previous_tstamp)
        increment == branch = "overflow"
        search_next_long_tstamp == branch = "large"
        update_old_tstamp_value == branch \in {"forward", "overflow", "large"}
        g1 == [g EXCEPT !.tstamp_branch = branch,
                        !.time_diff = tstamp_difference(t.l, t.old),
                        !.timestamp.h = IF increment THEN UInc(@) ELSE @,
                        !.timestamp.msg_long_tstamp_incremented =
                            IF increment THEN g.message_cnt ELSE @,
                        !.timestamp.mark_problematic_tstamps =
                            IF search_next_long_tstamp THEN ~t.no_previous_tstamp ELSE @,
                        !.timestamp.old =
                            IF update_old_tstamp_value \/ t.no_previous_tstamp
                            THEN t.l ELSE @]
    IN  IF \/ search_next_long_tstamp /\ t.searched_to_index < g.index
           \/ t.no_previous_tstamp
        THEN LET f == long_timestamp_found([g1 EXCEPT !.scans = @ + 1])
             IN  IF f.found THEN [f.g EXCEPT !.timestamp.old = t.l] ELSE f.g
        ELSE g1

\* process_timestamp_value()
process_timestamp_value(g) ==
    LET t == g.timestamp
        branch == tstamp_compare(tstamp_difference(t.l, t.old), t.old,
                                 t.no_previous_tstamp)
        increment == branch = "overflow" /\ g.message_cnt - t.msg_long_tstamp_incremented >= 4
        search_next_long_tstamp == branch = "large"
        update_old_tstamp_value == branch \in {"forward", "overflow", "large"}
        g1 == [g EXCEPT !.tstamp_branch = branch,
                        !.time_diff = tstamp_difference(t.l, t.old),
                        !.timestamp.h = IF increment THEN UInc(@) ELSE @,
                        !.timestamp.msg_long_tstamp_incremented =
                            IF increment THEN g.message_cnt ELSE @,
                        !.timestamp.mark_problematic_tstamps =
                            IF search_next_long_tstamp THEN ~t.no_previous_tstamp ELSE @,
                        !.timestamp.old =
                            IF update_old_tstamp_value \/ t.no_previous_tstamp
                            THEN t.l ELSE @]
    IN  IF \/ search_next_long_tstamp /\ t.searched_to_index < g.index
           \/ t.no_previous_tstamp
        THEN LET f == long_timestamp_found([g1 EXCEPT !.scans = @ + 1])
             IN  IF f.found THEN [f.g EXCEPT !.timestamp.old = t.l] ELSE f.g
        ELSE g1

\* prepare_timestamp_value() without its assignment to no_previous_tstamp.
prepare_timestamp_value_keeps_flag(g) ==
    IF g.fmt_id = 0
    THEN [g EXCEPT !.timestamp.old = g.timestamp.l,
                   !.timestamp.long_timestamp_found = TRUE]
    ELSE process_timestamp_value(g)

\* prepare_timestamp_value(); it is not called for the message
\* MSG1_SYS_STREAMING_MODE_LOGGING.
prepare_timestamp_value(g) ==
    LET g1 == IF g.fmt_id = 0
              THEN [g EXCEPT !.timestamp.old = g.timestamp.l,
                             !.timestamp.long_timestamp_found = TRUE]
              ELSE process_timestamp_value(g)
    IN  [g1 EXCEPT !.timestamp.no_previous_tstamp = FALSE]

(***************************************************************************)
(* process_message() and what it calls: utf8_helpers.c and vcd.h.          *)
(***************************************************************************)
\* process_streaming_mode_messages(): SYS_HOST_DATE_TIME_INFO is code 0,
\* SYS_DATA_OVERRUN_DETECTED and SYS_MULTIPLE_LOGGING are the codes 1 and 2.
process_streaming_mode_messages(g) ==
    LET g1 == [g EXCEPT !.message_cnt = @ - 1]
        special_message ==
            g.timestamp.l \div Pow2(FmtIdBits + 1 + 11 - TstampStepBits)
    IN  CASE special_message = 0 -> g1
          [] special_message \in {1, 2} -> reset_statistics(g1)
          [] OTHER -> report_problem(g1, "ERR_UNKNOWN_SYS_CODE", special_message)

\* A system message that changes nothing.
system_message_ignored(g) == g

\* process_system_messages()
process_system_messages(g) ==
    IF g.asm_size # 4 THEN report_problem(g, "ERR_BAD_SYSTEM_MESSAGE", g.asm_size)
    ELSE IF g.fmt_id \div 2 = 0
    THEN LET new_timestamp_h == Word32(g.assembled_msg[1])
             g1 == IF new_timestamp_h = 0 /\ g.timestamp.h # 0
                   THEN reset_statistics(g) ELSE g
         IN  IF new_timestamp_h = -1
             THEN [reset_statistics(g1) EXCEPT !.timestamp.h = 0, !.timestamp.l = 0]
             ELSE [g1 EXCEPT !.timestamp.h = new_timestamp_h]
    ELSE IF Word32(g.assembled_msg[1]) = 0
         THEN report_problem(g, "ERR_TIMESTAMP_FREQUENCY_ZERO", 0)
         ELSE g

\* The size byte is taken as it is.
prepare_message_msgx_unchecked(g) ==
    IF g.asm_size = 0
    THEN [ok |-> FALSE, g |-> report_problem(g, "ERR_MSGX_SIZE_EMPTY", 0)]
    ELSE LET w == g.assembled_msg[g.asm_words]
         IN  [ok |-> TRUE,
              g |-> [g EXCEPT !.asm_size = w.low31 \div Pow2(24) + 128 * w.bit31]]

\* prepare_message_msgx(): the result is the state and message_ok.
prepare_message_msgx(g) ==
    IF g.asm_size = 0
    THEN [ok |-> FALSE, g |-> report_problem(g, "ERR_MSGX_SIZE_EMPTY", 0)]
    ELSE
    LET w == g.assembled_msg[g.asm_words]
        size == w.low31 \div Pow2(24) + 128 * w.bit31
    IN  IF size > g.asm_size - 1
        THEN [ok |-> FALSE, g |-> report_problem(g, "ERR_MSGX_SIZE_TOO_LARGE", size)]
        ELSE IF size < g.asm_size - 4
        THEN [ok |-> FALSE, g |-> report_problem(g, "ERR_MSGX_SIZE_TOO_SMALL", size)]
        ELSE IF (w.low31 % Pow2(24)) \div Pow2((size % 4) * 8) # 0
        THEN [ok |-> FALSE, g |-> report_problem(g, "ERR_MSGX_CORRUPTED", 0)]
        ELSE [ok |-> TRUE, g |-> [g EXCEPT !.asm_size = size]]

\* prepare_msg_and_check_it()
prepare_msg_and_check_it(g, type, mask) ==
    LET g1 == [g EXCEPT !.asm_size = 4 * g.asm_words] IN
    CASE type = "TYPE_EXT_MSG" ->
             [ok |-> TRUE,
              g |-> [g1 EXCEPT !.assembled_msg =
                                   Append(@, [low31 |-> g.additional_data % (mask + 1),
                                              bit31 |-> 0]),
                               !.asm_size = @ + 4,
                               !.fmt_id = @ - (@ % (mask + 1))]]
      [] type = "TYPE_MSGX" -> prepare_message_msgx(g1)
      [] OTHER -> [ok |-> TRUE, g |-> g1]

\* check_extended_data()
check_extended_data(g, msg_type) ==
    IF msg_type \in {"TYPE_MSGN", "TYPE_MSGX"} /\ g.additional_data # 0
    THEN [report_problem(g, "ERR_UNWANTED_EXTENDED_DATA", g.additional_data)
             EXCEPT !.additional_data = 0]
    ELSE g

\* print_message() that leaves the mark of a suspicious timestamp alone.
print_message_unmarked(g, errs) ==
    LET g0 == [g EXCEPT !.msg_error_counter = 0] IN
    IF g_fmt[g.fmt_id] = NULL \/ ~plans[g_fmt[g.fmt_id]].fmt_string
    THEN report_problem(g0, "ERR_MESSAGE_MUST_CONTAIN_ONE_FMT_DEFINITION", 0)
    ELSE
    LET g1 == check_extended_data(g0, plans[g_fmt[g.fmt_id]].msg_type)
        g3 == print_decoding_errors(
                  save_decoding_errors([g1 EXCEPT !.values_printed = TRUE], errs))
    IN  IF g3.msg_error_counter > 0
        THEN [g3 EXCEPT !.timestamp.no_previous_tstamp = TRUE]
        ELSE g3

\* print_message(): errs are the errors that the values of the message save
\* with save_decoding_error() while they are printed.
print_message(g, errs) ==
    LET g0 == [g EXCEPT !.msg_error_counter = 0] IN
    IF g_fmt[g.fmt_id] = NULL \/ ~plans[g_fmt[g.fmt_id]].fmt_string
    THEN report_problem(g0, "ERR_MESSAGE_MUST_CONTAIN_ONE_FMT_DEFINITION", 0)
    ELSE
    LET g1 == check_extended_data(g0, plans[g_fmt[g.fmt_id]].msg_type)
        g2 == IF g1.timestamp.mark_problematic_tstamps
              THEN [g1 EXCEPT !.timestamp.mark_problematic_tstamps = FALSE,
                              !.timestamp.suspicious_timestamp = @ + 1]
              ELSE g1
        g3 == print_decoding_errors(
                  save_decoding_errors([g2 EXCEPT !.values_printed = TRUE], errs))
    IN  IF g3.msg_error_counter > 0
        THEN [g3 EXCEPT !.timestamp.no_previous_tstamp = TRUE]
        ELSE g3

\* process_message() that goes on with a message whose size does not match
\* the definition after it has reported the size.
process_message_prints_what_fits(g, errs) ==
    LET current_fmt_id == g.fmt_id
        g0 == [g EXCEPT !.message_cnt = @ + 1]
    IN  IF current_fmt_id >= MAX_FMT_IDS \/ g_fmt[current_fmt_id] = NULL
        THEN report_problem(g0, "ERR_NO_FORMATTING_DEFINITION_FOR_CODE", current_fmt_id)
        ELSE
        LET p_fmt == plans[g_fmt[current_fmt_id]]
            m == prepare_msg_and_check_it(g0, p_fmt.msg_type, p_fmt.ext_data_mask)
            g1 == IF p_fmt.msg_len # 0 /\ m.g.asm_size # p_fmt.msg_len
                  THEN report_problem(m.g, "ERR_MSG_SIZE_DOES_NOT_MATCH_DEFINITION",
                                      m.g.asm_size)
                  ELSE m.g
            g2 == IF g1.fmt_id < 4 THEN process_system_messages(g1) ELSE g1
        IN  IF g2.fmt_id = topmost_fmt_id
            THEN process_streaming_mode_messages(g2)
            ELSE LET g3 == prepare_timestamp_value(g2)
                 IN  IF m.ok THEN print_message(g3, errs) ELSE g3

\* process_message()
process_message(g, errs) ==
    LET current_fmt_id == g.fmt_id
        g0 == [g EXCEPT !.message_cnt = @ + 1]
    IN  IF current_fmt_id >= MAX_FMT_IDS \/ g_fmt[current_fmt_id] = NULL
        THEN report_problem(g0, "ERR_NO_FORMATTING_DEFINITION_FOR_CODE", current_fmt_id)
        ELSE
        LET p_fmt == plans[g_fmt[current_fmt_id]]
            m == prepare_msg_and_check_it(g0, p_fmt.msg_type, p_fmt.ext_data_mask)
        IN  IF p_fmt.msg_len # 0 /\ m.g.asm_size # p_fmt.msg_len
            THEN report_problem(
                     [m.g EXCEPT !.asm_words = IF p_fmt.msg_type = "TYPE_EXT_MSG"
                                               THEN @ + 1 ELSE @],
                     "ERR_MSG_SIZE_DOES_NOT_MATCH_DEFINITION", m.g.asm_size)
            ELSE
            LET g1 == IF m.g.fmt_id < 4 THEN process_system_messages(m.g) ELSE m.g
            IN  IF g1.fmt_id = topmost_fmt_id
                THEN process_streaming_mode_messages(g1)
                ELSE LET g2 == prepare_timestamp_value(g1)
                     IN  IF m.ok THEN print_message(g2, errs) ELSE g2

\* report_bad_block()
report_bad_block(g) ==
    LET asm == IF g.asm_words # 0 THEN g.asm_words + (g.asm_words + 3) \div 4 ELSE 0
        total_words == g.bad_packet_words + asm
    IN  report_problem([g EXCEPT !.message_cnt = @ + 1],
                       "ERR_BAD_BLOCK_FOUND", total_words)

\* report_a_too_long_message()
report_a_too_long_message(g) ==
    report_problem([g EXCEPT !.message_cnt = @ + 1], "ERR_MESSAGE_TOO_LONG", 0)

\* report_an_unfinished_block()
report_an_unfinished_block(g) ==
    report_problem([g EXCEPT !.message_cnt = @ + 1],
                   "ERR_UNFINISHED_BLOCK", g.unfinished_words)

(***************************************************************************)
(* The loading of the binary file in the streaming mode: read_bin_data.c   *)
(* and load_additional_data() of process_bin_data.c.                       *)
(***************************************************************************)
\* The number of words of the buffer of the streaming mode.
RTEDBG_BUFFER_SIZE == 6

\* load_bin_words(): fread() reads the words that the file still has and
\* memset() fills the rest of the no_words words with 0xFFFFFFFF.
load_bin_words(file, no_words) ==
    LET words_read == IF Len(file) < no_words THEN Len(file) ELSE no_words
    IN  [words_read |-> words_read,
         written |-> [i \in 1 .. no_words |->
                         IF i <= words_read THEN file[i] ELSE UnfinishedWord],
         file |-> SubSeq(file, words_read + 1, Len(file))]

\* load_data_block(): size is g_msg.in_size, buffer is g_msg.rte_buffer and st
\* the file.  A write behind the last word of the buffer is undefined: it is
\* recorded in overrun and the buffer keeps its words.
load_data_block(g, size, buffer, st) ==
    IF st.complete_file_loaded
    THEN [g |-> g, in_size |-> size, rte_buffer |-> buffer, stream |-> st]
    ELSE
    LET remaining_words == size - g.index
        moves == g.index < size
    IN  IF moves /\ remaining_words >= RTEDBG_BUFFER_SIZE
        THEN [g |-> g, in_size |-> size, rte_buffer |-> buffer,
              stream |-> [st EXCEPT !.fatal = TRUE]]
        ELSE
        LET moved == [i \in 1 .. Len(buffer) |->
                         IF moves /\ i <= remaining_words
                         THEN buffer[g.index + i] ELSE buffer[i]]
            space_in_buffer == IF moves THEN RTEDBG_BUFFER_SIZE - remaining_words
                               ELSE RTEDBG_BUFFER_SIZE
            size1 == size - remaining_words
            r == load_bin_words(st.file, space_in_buffer)
            loaded == [i \in 1 .. Len(buffer) |->
                          IF i > size1 /\ i <= size1 + space_in_buffer
                          THEN r.written[i - size1] ELSE moved[i]]
            short == r.words_read # space_in_buffer
        IN  IF space_in_buffer > 0
            THEN [g |-> IF short
                        THEN report_problem([g EXCEPT !.index = 0],
                                            "ERR_READ_BIN_FILE_PROBLEM", r.words_read)
                        ELSE [g EXCEPT !.index = 0],
                  in_size |-> size1 + r.words_read,
                  rte_buffer |-> loaded,
                  stream |-> [st EXCEPT
                      !.complete_file_loaded = short,
                      !.file = r.file,
                      !.already_processed_data = IF moves THEN @ + g.index ELSE @,
                      !.walked_to = IF ~moves THEN @
                                    ELSE IF @ > g.index THEN @ - g.index ELSE 0,
                      !.overrun = size1 + space_in_buffer > Len(buffer)]]
            ELSE [g |-> [g EXCEPT !.index = 0], in_size |-> size1,
                  rte_buffer |-> moved,
                  stream |-> [st EXCEPT
                      !.already_processed_data = IF moves THEN @ + g.index ELSE @,
                      !.walked_to = IF ~moves THEN @
                                    ELSE IF @ > g.index THEN @ - g.index ELSE 0]]

\* load_additional_data()
load_additional_data(g, size, buffer, st) ==
    IF /\ ~st.complete_file_loaded
       /\ size - g.index <= 2 * hdr_data.max_msg_blocks * 5 * 4
    THEN load_data_block(g, size, buffer, st)
    ELSE [g |-> g, in_size |-> size, rte_buffer |-> buffer, stream |-> st]

\* The words that long_timestamp_found() has walked in a pass end at
\* searched_to_index.
walked_by_the_pass(g, st) ==
    IF /\ g.scans > 0 /\ hdr_data.long_timestamp_used /\ g.index < in_size
       /\ g.timestamp.searched_to_index > st.walked_to
    THEN [st EXCEPT !.walked_to = g.timestamp.searched_to_index]
    ELSE st

(***************************************************************************)
(* The loading of the data of the post-mortem mode: read_bin_data.c.  A    *)
(* value of the type uint32_t that has wrapped below 0 is kept as the      *)
(* negative number.                                                        *)
(***************************************************************************)
MAX_RTEDBG_BUFFER_SIZE == 134217733

\* The number of the words 0xFFFFFFFF at the start of buffer.
RECURSIVE LeadingEmpty(_)
LeadingEmpty(buffer) ==
    IF buffer = <<>> \/ Head(buffer).kind # "FFFF" THEN 0
    ELSE 1 + LeadingEmpty(Tail(buffer))

\* check_data_size(): data_size is the size of the file in words without the
\* header.
check_data_size(g, hdr, data_size) ==
    LET differs == data_size # hdr.buffer_size
        g1 == IF data_size > hdr.buffer_size
              THEN report_problem(g, "ERR_BIN_FILE_CONTAINS_TOO_MUCH_DATA",
                                  hdr.buffer_size)
              ELSE IF data_size < hdr.buffer_size
              THEN report_problem(g, "ERR_NOT_ENOUGH_DATA_IN_BIN_FILE", hdr.buffer_size)
              ELSE g
        size1 == IF differs THEN data_size ELSE hdr.buffer_size
        truncated == size1 > MAX_RTEDBG_BUFFER_SIZE
        g2 == IF truncated
              THEN report_problem(g1, "ERR_MESSAGE_FILE_SIZE_TRUNCATED",
                                  MAX_RTEDBG_BUFFER_SIZE)
              ELSE g1
        buffer_size == IF truncated THEN MAX_RTEDBG_BUFFER_SIZE ELSE size1
        outside == hdr.last_index >= buffer_size
    IN  [fatal |-> hdr.buffer_size = 0,
         buffer_size_changed |-> differs \/ truncated,
         last_index |-> IF outside THEN buffer_size ELSE hdr.last_index,
         g |-> IF outside
               THEN report_problem(g2, "ERR_INDEX_IN_CIRCULAR_BUFFER_OUT_OF_RANGE",
                                   buffer_size)
               ELSE g2]

\* check_empty_data(): the loop is a do-while, with size = 0 it ends at the
\* first word that is not 0xFFFFFFFF, at the latest at the zeroed words that
\* allocate_memory() has left behind the loaded ones.
check_empty_data(buffer, size) ==
    IF size = 0 THEN LeadingEmpty(buffer)
    ELSE LeadingEmpty(SubSeq(buffer, 1, size))

\* empty_data_at_end_of_buffer()
empty_data_at_end_of_buffer(buffer, last_index, words_read) ==
    \A i \in last_index + 1 .. words_read : buffer[i].kind = "FFFF"

\* check_data_at_end_of_circular_buffer(): bit 0 is set in a FMT word and in
\* 0xFFFFFFFF; without such a word i is buffer_size and the result wraps.
check_data_at_end_of_circular_buffer(buffer, buffer_size) ==
    IF buffer_size < 5 THEN 0
    ELSE IF buffer[buffer_size - 4].kind = "FFFF" THEN 4
    ELSE LET I == {i \in buffer_size - 5 .. buffer_size - 1 : buffer[i + 1].kind # "DATA"}
             i == IF I = {} THEN buffer_size
                  ELSE CHOOSE j \in I : \A k \in I : j <= k
         IN  buffer_size - i - 1

\* load_post_mortem_data_part1(): file holds the words behind the header.
load_post_mortem_data_part1(g, file, rte_buffer_size, data_size, idx) ==
    IF data_size < 0 \/ data_size > rte_buffer_size
    THEN [fatal |-> TRUE, g |-> g, in_size |-> 0, rte_buffer |-> <<>>]
    ELSE LET r == load_bin_words(SubSeq(file, idx + 1, Len(file)), data_size)
         IN  [fatal |-> FALSE,
              g |-> [(IF r.words_read # data_size
                      THEN report_problem(g, "ERR_READ_BIN_FILE_PROBLEM", r.words_read)
                      ELSE g) EXCEPT !.index = LeadingEmpty(r.written)],
              in_size |-> data_size,
              rte_buffer |-> r.written]

\* load_post_mortem_data_part2(): size is g_msg.in_size and buffer the words
\* that part 1 has loaded.  A data_size below 0 is a number of words above
\* 2^31: the sum with size wraps, and fread() and memset() write behind the
\* end of the buffer.
load_post_mortem_data_part2(g, file, rte_buffer_size, size, buffer, data_size, start_index) ==
    IF (data_size >= 0 /\ data_size + size > rte_buffer_size)
           \/ (data_size < 0 /\ data_size + size < 0)
    THEN [fatal |-> TRUE, overrun |-> FALSE, g |-> g, in_size |-> size,
          rte_buffer |-> buffer]
    ELSE IF data_size < 0
    THEN [fatal |-> FALSE, overrun |-> TRUE, g |-> g, in_size |-> size,
          rte_buffer |-> buffer]
    ELSE IF data_size > 0
    THEN LET r == load_bin_words(SubSeq(file, start_index + 1, Len(file)), data_size)
         IN  [fatal |-> FALSE, overrun |-> FALSE,
              g |-> IF r.words_read # data_size
                    THEN report_problem(g, "ERR_READ_BIN_FILE_PROBLEM", r.words_read)
                    ELSE g,
              in_size |-> size + r.words_read,
              rte_buffer |-> buffer \o SubSeq(r.written, 1, r.words_read)]
    ELSE [fatal |-> FALSE, overrun |-> FALSE, g |-> g, in_size |-> size,
          rte_buffer |-> buffer]

\* load_post_mortem_data(): the result holds the loaded words
\* rte_buffer[0 .. in_size - 1].
load_post_mortem_data(g, st) ==
    LET hdr == st.rte_header
        c == check_data_size(g, hdr, Len(st.file))
        r == load_bin_words(st.file, hdr.buffer_size)
        g1 == IF r.words_read # hdr.buffer_size
              THEN report_problem(c.g, "ERR_READ_BIN_FILE_PROBLEM", r.words_read)
              ELSE c.g
        buffer_size == r.words_read
        buffer_size_changed == c.buffer_size_changed \/ r.words_read # hdr.buffer_size
        last_index == c.last_index
        image == r.written
        none == [fatal |-> FALSE, overrun |-> FALSE, g |-> g1, in_size |-> 0,
                 rte_buffer |-> image]
    IN  IF c.fatal THEN [none EXCEPT !.fatal = TRUE]
        ELSE IF r.words_read # hdr.buffer_size /\ last_index > r.words_read
        THEN [none EXCEPT !.in_size = r.words_read]
        ELSE IF empty_data_at_end_of_buffer(image, last_index, r.words_read)
        THEN [none EXCEPT !.g.index = check_empty_data(image, last_index),
                          !.in_size = last_index]
        ELSE
        LET at_end == check_data_at_end_of_circular_buffer(image, buffer_size)
            skip_at_end == IF buffer_size_changed THEN 0 ELSE at_end
            skip_at_start ==
                IF /\ ~buffer_size_changed
                   /\ hdr.buffer_size_is_power_of_2 /\ buffer_size > 2 * 4
                THEN 4 - skip_at_end ELSE 0
            p1 == load_post_mortem_data_part1(g1, st.file, 16 + hdr.buffer_size,
                                              buffer_size - last_index - skip_at_end,
                                              last_index)
            p2 == load_post_mortem_data_part2(p1.g, st.file, 16 + hdr.buffer_size,
                                              p1.in_size, p1.rte_buffer,
                                              last_index - skip_at_start, skip_at_start)
        IN  IF p1.fatal THEN [none EXCEPT !.fatal = TRUE] ELSE p2

(***************************************************************************)
(* process_bin_data_worker(): one action for each code that                *)
(* assemble_message() returns.                                             *)
(***************************************************************************)
\* The pass is over: g is written to g_msg, dlast remembers the pass.
CommitPass(d, g, errs) ==
    /\ \E r \in {load_additional_data(g, in_size, rte_buffer,
                                       walked_by_the_pass(g, stream))} :
           /\ index' = r.g.index
           /\ in_size' = r.in_size
           /\ rte_buffer' = r.rte_buffer
           /\ stream' = r.stream
           /\ total_errors' = r.g.total_errors
           /\ error_counter' = r.g.error_counter
           /\ mpc' = IF r.stream.overrun THEN "overrun"
                     ELSE IF r.stream.fatal THEN "exit_fatal_internal" ELSE mpc
    /\ binary_file_decoding_finished' = g.finished
    /\ asm_words' = g.asm_words
    /\ assembled_msg' = g.assembled_msg
    /\ msg_fmt_id' = g.fmt_id
    /\ message_cnt' = g.message_cnt
    /\ timestamp' = g.timestamp
    /\ msg_error_counter' = g.msg_error_counter
    /\ error_log' = g.error_log
    /\ dlast' = [code |-> d.rez, last_index |-> index,
                 bad_packet_words |-> d.bad_packet_words,
                 unfinished_words |-> d.unfinished_words,
                 raw_data |-> d.raw_data, fmt_id |-> d.fmt_id,
                 reported |-> g.reported, printed |-> g.printed,
                 slot_errors |-> errs, h_before |-> timestamp.h,
                 l_before |-> timestamp.l, old_before |-> timestamp.old,
                 cnt_before |-> message_cnt,
                 no_previous_before |-> timestamp.no_previous_tstamp,
                 values_printed |-> g.values_printed,
                 tstamp_branch |-> g.tstamp_branch,
                 assembled |-> d.assembled_msg,
                 additional_data |-> d.additional_data,
                 searched_before |-> timestamp.searched_to_index,
                 searched_after |-> g.timestamp.searched_to_index,
                 asm_size |-> g.asm_size,
                 suspicious_before |-> timestamp.suspicious_timestamp,
                 mark_before |-> timestamp.mark_problematic_tstamps,
                 incremented_before |-> timestamp.msg_long_tstamp_incremented,
                 scans |-> g.scans, time_diff |-> g.time_diff,
                 end_index |-> g.index, walked_before |-> stream.walked_to,
                 msg_errors_before |-> msg_error_counter]
    /\ UNCHANGED <<parse_vars, exit_code, hdr_data, param, sel, sync>>

\* "case DATA_FOUND: process_message(last_index);"; E is the set of the
\* sequences of errors that the values of a message can save.
DataFound(E) ==
    /\ mpc = "decode"
    /\ \E d \in {assemble_message(Asm)} :
           /\ d.rez = "DATA_FOUND"
           /\ \E errs \in E :
                  \E g \in {process_message(d, errs)} : CommitPass(d, g, errs)

\* "case BAD_BLOCK: report_bad_block(last_index);"
BadBlock ==
    /\ mpc = "decode"
    /\ \E d \in {assemble_message(Asm)} :
           /\ d.rez = "BAD_BLOCK"
           /\ \E g \in {report_bad_block(d)} : CommitPass(d, g, <<>>)

\* "case UNFINISHED_BLOCK: report_an_unfinished_block(last_index);"
UnfinishedBlock ==
    /\ mpc = "decode"
    /\ \E d \in {assemble_message(Asm)} :
           /\ d.rez = "UNFINISHED_BLOCK"
           /\ \E g \in {report_an_unfinished_block(d)} : CommitPass(d, g, <<>>)

\* "case MESSAGE_TOO_LONG: report_a_too_long_message(last_index);"
MessageTooLong ==
    /\ mpc = "decode"
    /\ \E d \in {assemble_message(Asm)} :
           /\ d.rez = "MESSAGE_TOO_LONG"
           /\ \E g \in {report_a_too_long_message(d)} : CommitPass(d, g, <<>>)

\* "case END_OF_BUFFER: return;": the worker and Process_binary_data_file()
\* return, and main() returns ret_value.
WorkerReturns ==
    /\ mpc = "decode"
    /\ \E d \in {assemble_message(Asm)} :
           /\ d.rez = "END_OF_BUFFER"
           /\ mpc' = "return_end"
           /\ exit_code' = ret_value(total_errors, TRUE)
           /\ binary_file_decoding_finished' = d.finished
           /\ asm_words' = d.asm_words
           /\ assembled_msg' = d.assembled_msg
           /\ dlast' = [dlast EXCEPT !.code = "END_OF_BUFFER", !.last_index = index]
           /\ UNCHANGED <<parse_vars, index, in_size, total_errors, rte_buffer,
                          hdr_data, param, msg_fmt_id, message_cnt, timestamp,
                          msg_error_counter, error_log, error_counter, aux_vars>>

NextDecode(E) ==
    \/ DataFound(E) \/ BadBlock \/ UnfinishedBlock \/ MessageTooLong
    \/ WorkerReturns

(***************************************************************************)
(* The binary data that the decoding starts with.                          *)
(***************************************************************************)
PlanName(dir, num, id) == [dir |-> dir, num |-> num, ext |-> 0, id |-> id]

\* prepare_sys_msg_fmt_structure(): the plan of MSG1_SYS_STREAMING_MODE_LOGGING.
SysPlan ==
    [message_name |-> PlanName("", 0, "sys"), msg_type |-> "TYPE_MSG0_4",
     ext_data_mask |-> 0, msg_len |-> 4, fmt_string |-> FALSE]

UserPlan(dir, num, id, msg_type) ==
    [message_name |-> PlanName(dir, num, id), msg_type |-> msg_type,
     ext_data_mask |-> 0, msg_len |-> 4 * num, fmt_string |-> TRUE]

\* What the parser leaves for the format definitions of rte_system.fmt,
\* "MSG1_SYS_LONG_TIMESTAMP" and "MSG1_SYS_TSTAMP_FREQUENCY", followed by
\* "MSG0_A", "MSG1_B" and "MSG2_C".
SystemTable ==
    [plans |-> <<UserPlan("MSG", 1, "SYS_LONG_TIMESTAMP", "TYPE_MSG0_4"),
                 UserPlan("MSG", 1, "SYS_TSTAMP_FREQUENCY", "TYPE_MSG0_4"),
                 UserPlan("MSG", 0, "A", "TYPE_MSG0_4"),
                 UserPlan("MSG", 1, "B", "TYPE_MSG0_4"),
                 UserPlan("MSG", 2, "C", "TYPE_MSG0_4"),
                 SysPlan>>,
     g_fmt |-> [i \in 0 .. MAX_FMT_IDS - 1 |->
                   CASE i \in {0, 1} -> 1
                     [] i \in {2, 3} -> 2
                     [] i = 4 -> 3
                     [] i \in {6, 7} -> 4
                     [] i \in 8 .. 11 -> 5
                     [] i = topmost_fmt_id -> 6
                     [] OTHER -> NULL],
     fmt_ids_defined |-> 12]

\* What the parser leaves for "MSGN_L" followed by "MSG0_A".
LongTable ==
    [plans |-> <<UserPlan("MSGN", 0, "L", "TYPE_MSGN"),
                 UserPlan("MSG", 0, "A", "TYPE_MSG0_4"),
                 SysPlan>>,
     g_fmt |-> [i \in 0 .. MAX_FMT_IDS - 1 |->
                   CASE i \in 0 .. 15 -> 1
                     [] i = 16 -> 2
                     [] i = topmost_fmt_id -> 3
                     [] OTHER -> NULL],
     fmt_ids_defined |-> 17]

\* All buffers of at most n words of the set W.
BuffersOf(W, n) == UNION {[1 .. k -> W] : k \in 0 .. n}

\* Process_binary_data_file() has loaded the header and the data, has called
\* reset_statistics() and calls process_bin_data_worker(): tbl is what the
\* parser has left, B the set of buffers, L the values of
\* RTE_USE_LONG_TIMESTAMP, P the values of g_msg.param and M the values of
\* RTE_MAX_SUBPACKETS.
InitDecoder(tbl, L, P, M) ==
    /\ g_fmt = tbl.g_fmt
    /\ plans = tbl.plans
    /\ fmt_ids_defined = tbl.fmt_ids_defined
    /\ fmt_align_value = 0
    /\ enums = [i \in 0 .. MAX_ENUMS |-> NoEnum]
    /\ enums_found = NUMBER_OF_FILTER_BITS
    /\ filter_enums = 0
    /\ total_errors = 0
    /\ errors_counted = 0
    /\ handle = [p_current_message |-> NULL, p_new_message |-> NULL,
                 in_file_select |-> FALSE, out_file_select |-> FALSE,
                 current_in_file_idx |-> 0, parsing_errors_found |-> FALSE]
    /\ file_line_num = 0
    /\ pstate = "done"
    /\ last = NoLast
    /\ index = 0
    /\ binary_file_decoding_finished = FALSE
    /\ exit_code = -1
    /\ hdr_data \in [max_msg_blocks : M, long_timestamp_used : L]
    /\ param \in P
    /\ msg_fmt_id = 0
    /\ asm_words = 0
    /\ assembled_msg = <<>>
    /\ message_cnt = 0
    /\ timestamp = [NoTimestamp EXCEPT !.no_previous_tstamp = TRUE]
    /\ msg_error_counter = 0
    /\ error_log = NoErrorLog
    /\ error_counter = NoErrorsCounted
    /\ dlast = NoPass
    /\ sel = NoSelectedText
    /\ sync = NoFiles

\* The whole file is in the buffer: load_single_shot_data() or
\* load_post_mortem_data() has loaded it.
InitDecodeWith(tbl, B, L, P, M) ==
    /\ InitDecoder(tbl, L, P, M)
    /\ mpc = "decode"
    /\ rte_buffer \in B
    /\ in_size = Len(rte_buffer)
    /\ stream = NoStream

InitDecode(tbl, B, L, P) == InitDecodeWith(tbl, B, L, P, 1 .. MaxMsgBlocks)

\* The words of the buffers: a DATA word, the word of an unfinished write, and
\* FMT words of MSG0_A (format ID 4) and MSG2_C (8 to 11).
StreamWords == {DataWord(1), UnfinishedWord, FmtWord(4, 1), FmtWord(8, 1)}

\* FMT words of MSGN_L (format IDs 0 to 15) and of a format ID without a
\* definition (20).
LongStreamWords == {DataWord(1), FmtWord(0, 1), FmtWord(20, 1)}

ValueError == [error_number |-> "ERR_VALUE_NOT_IN_MESSAGE", value_number |-> 1]

InternalError == [error_number |-> "ERR_INTERNAL_ERROR", value_number |-> 2]

\* At most one value of a message saves an error.
OneSlotError == {<<>>, <<ValueError>>}

InitStream ==
    \/ InitDecode(SystemTable, BuffersOf(StreamWords, MaxBufferWords), {FALSE},
                  {DefaultParam})
    \/ InitDecode(LongTable, BuffersOf(LongStreamWords, MaxBufferWords), {FALSE},
                  {DefaultParam})

SpecDecode == InitStream /\ [][NextDecode(OneSlotError)]_vars

\* A full sub-packet of MSGN_L in front of the words of b.
AfterFullPacket(b) ==
    <<DataWord(1), DataWord(1), DataWord(1), DataWord(1), FmtWord(0, 1)>> \o b

\* Short buffers, and buffers that continue a full sub-packet.
InitShortStream ==
    \/ InitDecode(SystemTable, BuffersOf(StreamWords, ShortBufferWords), {FALSE},
                  {DefaultParam})
    \/ InitDecode(LongTable,
                  BuffersOf(LongStreamWords, ShortBufferWords)
                      \cup {AfterFullPacket(b) : b \in BuffersOf(LongStreamWords, 1)},
                  {FALSE}, {DefaultParam})

\* The worker loop runs as long as a pass is possible.
SpecDecodeFair ==
    InitShortStream /\ [][NextDecode(OneSlotError)]_vars
                    /\ WF_vars(NextDecode(OneSlotError))

\* C11: decode errors never abort the stream.  Every pass of the worker loop
\* that starts in front of the end of the loaded data, whatever it reports,
\* leaves the decoder decoding at a later word of the same data, and the
\* decoding comes to the end of the loaded data.
C11_DecodingContinues ==
    /\ [][(mpc = "decode" /\ index < in_size) =>
            /\ mpc' = "decode"
            /\ index < index' /\ index' <= in_size
            /\ rte_buffer' = rte_buffer]_vars
    /\ [](mpc = "return_end" => index = in_size)
    /\ <>(mpc = "return_end" /\ binary_file_decoding_finished)

\* A bad block and an unfinished block were reported, a message after them
\* saved an error for one of its values, and the end of the data was reached.
C11_Witness ==
    /\ mpc = "return_end"
    /\ error_counter["ERR_BAD_BLOCK_FOUND"] >= 1
    /\ error_counter["ERR_UNFINISHED_BLOCK"] >= 1
    /\ dlast.slot_errors # <<>>
    /\ dlast.printed # <<>>

\* The number of DATA words from idx on.
RECURSIVE DataRun(_)
DataRun(idx) ==
    IF idx < in_size /\ rte_buffer[idx + 1].kind = "DATA" THEN 1 + DataRun(idx + 1) ELSE 0

\* The word at idx is the FMT word of a plan of kind MSG0 and length 0.
Msg0At(idx) ==
    /\ idx < in_size
    /\ rte_buffer[idx + 1].kind = "FMT"
    /\ g_fmt[rte_buffer[idx + 1].id] # NULL
    /\ plans[g_fmt[rte_buffer[idx + 1].id]].msg_type = "TYPE_MSG0_4"
    /\ plans[g_fmt[rte_buffer[idx + 1].id]].msg_len = 0

\* C15: the FMT word of a MSG0 plan alone is a complete message without data
\* that is decoded without an error; with DATA words collected in front of it
\* the pass reports exactly these words as a bad block and stops at the FMT
\* word, which the next pass decodes alone.
C15_Msg0Alone ==
    [][/\ (mpc = "decode" /\ Msg0At(index)) =>
            /\ dlast'.code = "DATA_FOUND"
            /\ asm_words' = 0 /\ assembled_msg' = <<>>
            /\ msg_fmt_id' = rte_buffer[index + 1].id
            /\ index' = index + 1
            /\ dlast'.reported = <<>>
       /\ (/\ mpc = "decode"
           /\ DataRun(index) \in 1 .. MAX_RAW_DATA_SIZE - 1
           /\ Msg0At(index + DataRun(index))) =>
            /\ dlast'.code = "BAD_BLOCK"
            /\ dlast'.reported = <<<<"ERR_BAD_BLOCK_FOUND", DataRun(index)>>>>
            /\ asm_words' = 0
            /\ index' = index + DataRun(index)
            /\ Msg0At(index')]_vars

\* DATA words in front of a MSG0 were reported as a bad block and the FMT word
\* was decoded alone after that.
C15_Witness ==
    /\ dlast.code = "DATA_FOUND"
    /\ dlast.last_index >= 1
    /\ rte_buffer[dlast.last_index].kind = "DATA"
    /\ rte_buffer[dlast.last_index + 1] = FmtWord(4, 1)
    /\ index = dlast.last_index + 1
    /\ asm_words = 0
    /\ message_cnt = 2
    /\ error_counter["ERR_BAD_BLOCK_FOUND"] = 1
    /\ total_errors = 1

\* The word at idx is 0xFFFFFFFF.
UnfinishedAt(idx) == idx < in_size /\ rte_buffer[idx + 1].kind = "FFFF"

\* C19: when the word 0xFFFFFFFF is met with DATA words of the sub-packet
\* collected, the pass ends with BAD_BLOCK for exactly the collected words and
\* leaves the word 0xFFFFFFFF unread; when it is met with nothing collected,
\* the pass skips the whole run of words 0xFFFFFFFF and ends with
\* UNFINISHED_BLOCK.
C19_UnfinishedWord ==
    [][/\ (/\ mpc = "decode"
           /\ DataRun(index) \in 1 .. MAX_RAW_DATA_SIZE - 1
           /\ UnfinishedAt(index + DataRun(index))) =>
            /\ dlast'.code = "BAD_BLOCK"
            /\ dlast'.bad_packet_words = DataRun(index)
            /\ dlast'.reported = <<<<"ERR_BAD_BLOCK_FOUND", DataRun(index)>>>>
            /\ index' = index + DataRun(index)
       /\ (mpc = "decode" /\ UnfinishedAt(index)) =>
            /\ dlast'.code = "UNFINISHED_BLOCK"
            /\ dlast'.unfinished_words = index' - index
            /\ dlast'.reported = <<<<"ERR_UNFINISHED_BLOCK", index' - index>>>>
            /\ \A i \in index .. index' - 1 : UnfinishedAt(i)
            /\ ~UnfinishedAt(index')]_vars

\* DATA words in front of a run of two words 0xFFFFFFFF were reported as a bad
\* block, and the run as one unfinished block.
C19_Witness ==
    /\ dlast.code = "UNFINISHED_BLOCK"
    /\ dlast.unfinished_words >= 2
    /\ dlast.last_index >= 1
    /\ rte_buffer[dlast.last_index].kind = "DATA"
    /\ error_counter["ERR_BAD_BLOCK_FOUND"] = 1
    /\ message_cnt = 2
    /\ index < in_size

\* The length L that get_packet_length() gives for the FMT word at idx.
ExpectedAt(idx) == get_packet_length(rte_buffer[idx + 1].id)

\* The pass before ended with BAD_BLOCK for a sub-packet that was longer than
\* the length L of its FMT word.
RewoundBy(L) ==
    /\ dlast.code = "BAD_BLOCK"
    /\ dlast.raw_data # <<>>
    /\ dlast.raw_data[Len(dlast.raw_data)].kind = "FMT"
    /\ L = get_packet_length(dlast.raw_data[Len(dlast.raw_data)].id)
    /\ L # PACKET_LENGTH_UNKNOWN

\* C20: a pass that collects count words, the FMT word last, for a plan with
\* the expected length L < count reports exactly count - L words as a bad
\* block and leaves the read position L words in front of the end of the
\* sub-packet; the next pass reads these L words as a sub-packet of the plan.
C20_RewindByLength ==
    [][/\ (/\ mpc = "decode"
           /\ DataRun(index) + 1 <= MAX_RAW_DATA_SIZE
           /\ index + DataRun(index) < in_size
           /\ rte_buffer[index + DataRun(index) + 1].kind = "FMT"
           /\ ExpectedAt(index + DataRun(index)) # PACKET_LENGTH_UNKNOWN
           /\ DataRun(index) + 1 > ExpectedAt(index + DataRun(index))) =>
            LET count == DataRun(index) + 1
                L == ExpectedAt(index + DataRun(index))
            IN  /\ dlast'.code = "BAD_BLOCK"
                /\ dlast'.reported = <<<<"ERR_BAD_BLOCK_FOUND", count - L>>>>
                /\ index' = index + count - L
                /\ asm_words' = 0
       /\ \A L \in 1 .. 5 :
            (mpc = "decode" /\ RewoundBy(L)) =>
                /\ dlast'.code \in {"DATA_FOUND", "MESSAGE_TOO_LONG"}
                /\ index' >= index + L
                /\ asm_words' >= L - 1
                /\ \A i \in 1 .. L - 1 :
                       assembled_msg'[i].low31 = rte_buffer[index + i].v]_vars

\* Three DATA words and the FMT word of MSG2_C: the first DATA word was reported
\* as a bad block and the other three words were decoded as the message.
C20_Witness ==
    /\ dlast.code = "DATA_FOUND"
    /\ dlast.last_index = 1
    /\ index = 4
    /\ msg_fmt_id = 8
    /\ asm_words = 2
    /\ error_counter["ERR_BAD_BLOCK_FOUND"] = 1
    /\ message_cnt = 2

\* The values of a message save up to two errors more than the log holds.
ManySlotErrors ==
    BuffersOf({ValueError, InternalError}, MAX_ERRORS_IN_SINGLE_MESSAGE + 2)

SpecSlots == InitShortStream /\ [][NextDecode(ManySlotErrors)]_vars

\* The number of the elements of the sequence s that satisfy s[i][1] = e,
\* and of those with s[i].error_number = e.
Reports(s, e) == Cardinality({i \in DOMAIN s : s[i][1] = e})
Saves(s, e) == Cardinality({i \in DOMAIN s : s[i].error_number = e})

\* C12: of the errors that the values of one message save, the first
\* MAX_ERRORS_IN_SINGLE_MESSAGE are stored in the log and printed, in their
\* order, and every error, the later ones too, is added to the total and to
\* the counter of its code.
C12_ErrorsOfOneMessage ==
    [][(dlast'.code = "DATA_FOUND" /\ dlast'.values_printed) =>
        LET errs == dlast'.slot_errors
            n == IF Len(errs) > MAX_ERRORS_IN_SINGLE_MESSAGE
                 THEN MAX_ERRORS_IN_SINGLE_MESSAGE ELSE Len(errs)
        IN  /\ msg_error_counter' = n
            /\ dlast'.printed = SubSeq(errs, 1, n)
            /\ \A i \in 1 .. n : error_log'[i] = errs[i]
            /\ total_errors' = total_errors + Len(errs) + Len(dlast'.reported)
            /\ \A e \in DecodeErrors :
                   error_counter'[e] =
                       error_counter[e] + Saves(errs, e) + Reports(dlast'.reported, e)]_vars

\* The values of a message have saved more errors than the log holds.
C12_Witness ==
    /\ dlast.code = "DATA_FOUND"
    /\ dlast.values_printed
    /\ Len(dlast.slot_errors) = MAX_ERRORS_IN_SINGLE_MESSAGE + 2
    /\ Len(dlast.printed) = MAX_ERRORS_IN_SINGLE_MESSAGE
    /\ total_errors = Len(dlast.slot_errors)
    /\ dlast.slot_errors[Len(dlast.slot_errors)] # dlast.slot_errors[1]

(***************************************************************************)
(* Timestamps: buffers of whole messages with several timestamps, decoded  *)
(* with and without a -ts argument.                                        *)
(***************************************************************************)
\* The message MSG0_A with the timestamp ts and the message LONG_TIMESTAMP
\* that carries the high word h.
Msg0(ts) == <<FmtWord(4, ts)>>
LongTimestamp(h, ts) == <<DataWord(h), FmtWord(0, ts)>>

\* The message that rte_restart_timing() logs: LONG_TIMESTAMP with the value
\* 0xFFFFFFFF, whose bit 31 is bit 0 of the format ID.
RestartTiming(ts) == <<DataWord(2147483647), FmtWord(1, ts)>>

\* The buffers of at most n messages of the set M.
RECURSIVE StreamsOf(_, _)
StreamsOf(M, n) ==
    IF n = 0 THEN {<<>>}
    ELSE LET S == StreamsOf(M, n - 1) IN S \cup {s \o m : s \in S, m \in M}

\* The buffer b without its word number i: the target has lost one word.
DropWord(b, i) == SubSeq(b, 1, i - 1) \o SubSeq(b, i + 1, Len(b))

\* The pairs of the -ts argument, and the parameters of the runs that neither
\* process_the_timestamp_diff_value() nor check_timestamp_diff_values() ends.
TsArguments ==
    {NoTs} \cup [given : {TRUE}, neg : {-40, -33, -5, 0}, pos : {0, 20, 33, 40}]

TsParams ==
    LET R(ts) == process_command_line_parameters(ts)
        C(ts) == check_timestamp_diff_values(R(ts).param, timestamp_period_ms)
    IN  {C(ts).param : ts \in {a \in TsArguments : ~R(a).fatal /\ ~C(a).fatal}}

\* Timestamps just before and just after the wrap of the low word
\* (0xFFFF0000 and 0x00010000 in units of 2^TstampStepBits).
WrapStamps == {1, NORMALIZED_TSTAMP_PERIOD - 1}

\* A timestamp in the lower half of the period, and the timestamps at the
\* default limits on both sides of it.
OldStamp == (NORMALIZED_TSTAMP_PERIOD * 45) \div 100

LimitStamps ==
    {OldStamp,
     OldStamp + DEFAULT_NEGATIVE_TIMESTAMP_DIFF, OldStamp + DEFAULT_NEGATIVE_TIMESTAMP_DIFF - 1,
     OldStamp + DEFAULT_POSITIVE_TIMESTAMP_DIFF, OldStamp + DEFAULT_POSITIVE_TIMESTAMP_DIFF + 1,
     OldStamp + default_negative_one_third}

\* Buffers of the target with long timestamps: the high word is 2 before
\* the wrap of the low word and 3 after it; one word of the buffer is lost.
DroppedWordStreams ==
    LET M == {Msg0(ts) : ts \in WrapStamps}
                 \cup {LongTimestamp(2, NORMALIZED_TSTAMP_PERIOD - 1), LongTimestamp(3, 1),
                       RestartTiming(1)}
    IN  UNION {{DropWord(b, i) : i \in 1 .. Len(b)} : b \in StreamsOf(M, MaxMessages - 1)}

InitTstamp ==
    \/ InitDecode(SystemTable,
                  StreamsOf({Msg0(ts) : ts \in WrapStamps}
                                \cup {LongTimestamp(2, NORMALIZED_TSTAMP_PERIOD - 1)},
                            MaxMessages),
                  BOOLEAN, TsParams)
    \/ InitDecode(SystemTable, StreamsOf({Msg0(ts) : ts \in LimitStamps}, 2),
                  {FALSE}, TsParams)
    \/ InitDecode(SystemTable, DroppedWordStreams, {TRUE}, {DefaultParam})
    \/ InitShortStream

SpecTstamp == InitTstamp /\ [][NextDecode(OneSlotError)]_vars

\* The run has no -ts argument.
NoTsArgument == param.max_negative_tstamp_diff_f = NoFraction

\* The difference of the timestamp of the message of the last pass and the
\* timestamp that the decoder has compared it with.
LastTimeDiff == timestamp.l - dlast.old_before

\* The last pass has compared the timestamp of a message with an earlier one.
LastCompared ==
    /\ dlast.code = "DATA_FOUND"
    /\ dlast.tstamp_branch # "none"
    /\ ~dlast.no_previous_before

\* C18 as the specification states it: without a -ts argument the limits of
\* the timestamp difference are +0.33 and -0.33 of the period of 2^32.
C18_DefaultLimitsOneThird ==
    NoTsArgument =>
        /\ param.max_positive_tstamp_diff = TstampDiff([num |-> 33, den |-> 100])
        /\ param.max_negative_tstamp_diff = TstampDiff([num |-> -33, den |-> 100])

\* C18, amended: without a -ts argument the limits of the timestamp
\* difference are +0.33 and -0.10 of the period of 2^32: a message is taken
\* as following the earlier one when its difference is 0 .. 0.33 of the
\* period, and as delivered out of order when it is -0.10 of the period .. -1.
C18_DefaultLimits ==
    NoTsArgument =>
        /\ param.max_positive_tstamp_diff = TstampDiff([num |-> 33, den |-> 100])
        /\ param.max_negative_tstamp_diff = TstampDiff([num |-> -10, den |-> 100])
        /\ LastCompared =>
               /\ dlast.tstamp_branch = "forward" <=>
                      /\ LastTimeDiff >= 0
                      /\ LastTimeDiff <= (33 * NORMALIZED_TSTAMP_PERIOD) \div 100
               /\ dlast.tstamp_branch = "backward" <=>
                      /\ LastTimeDiff < 0
                      /\ -LastTimeDiff <= (10 * NORMALIZED_TSTAMP_PERIOD) \div 100

\* Without a -ts argument a message 0.33 of the period behind the earlier one
\* has not been accepted as delivered out of order.
C18_Witness ==
    /\ NoTsArgument
    /\ LastCompared
    /\ LastTimeDiff = -((33 * NORMALIZED_TSTAMP_PERIOD) \div 100)
    /\ dlast.tstamp_branch = "large"

\* The last pass has decoded a message that is not a system message.
UserMessageDecoded == dlast.code = "DATA_FOUND" /\ dlast.fmt_id >= 4

\* C13: when a message that is not a system message and has the low
\* timestamp word 0xFFFF0000 is followed at once by another one with the low
\* timestamp word 0x00010000, the decoding of the second one increments
\* tstamp_h exactly once.
C13_WrapIncrementsOnce ==
    [][(/\ UserMessageDecoded
        /\ timestamp.l = NORMALIZED_TSTAMP_PERIOD - 1
        /\ UserMessageDecoded'
        /\ timestamp'.l = 1) => timestamp'.h = timestamp.h + 1]_vars

\* The last pass has decoded a message LONG_TIMESTAMP of the right size.
LongTimestampProcessed ==
    /\ dlast.code = "DATA_FOUND"
    /\ dlast.fmt_id \in {0, 1}
    /\ Len(dlast.raw_data) = 2
    /\ dlast.reported = <<>>

\* The high word that the message LONG_TIMESTAMP of the last pass carries:
\* the DATA word in front of its FMT word and bit 0 of the format ID.
CarriedHighWord ==
    Word32([low31 |-> rte_buffer[index - 1].v, bit31 |-> rte_buffer[index].id % 2])

\* The number of the words of the buffer up to index n that are the FMT word
\* of a message with the low timestamp word ts.
StampedBefore(n, ts) ==
    {j \in 1 .. n : rte_buffer[j].kind = "FMT" /\ rte_buffer[j].ts = ts}

\* C14: also in a buffer that has lost a word, tstamp_h is the high word that
\* a message LONG_TIMESTAMP carries as soon as that message is processed (the
\* value 0xFFFFFFFF is no high word but the mark of a restart of the timing,
\* which sets the timestamp to zero), and
\* the decoding of any other message increments tstamp_h for a wrap-around
\* only when the low timestamp word has really wrapped: the low word of the
\* message is in the lower half and below the low word of an earlier message
\* of the buffer, which is in the upper half, and the new low word becomes
\* the one that later messages are compared with, so that one wrap is counted
\* once.
C14_RecoversAtLongTimestamp ==
    [][/\ LongTimestampProcessed' =>
              IF CarriedHighWord' = -1 THEN timestamp'.h = 0 /\ timestamp'.l = 0
              ELSE timestamp'.h = CarriedHighWord'
       /\ (/\ dlast'.code = "DATA_FOUND"
           /\ ~LongTimestampProcessed'
           /\ timestamp'.h # timestamp.h)
          => \/ /\ dlast'.tstamp_branch = "overflow"
                /\ timestamp'.h = timestamp.h + 1
                /\ timestamp.old >= NORMALIZED_TSTAMP_PERIOD \div 2
                /\ StampedBefore(index, timestamp.old) # {}
                /\ timestamp'.l < NORMALIZED_TSTAMP_PERIOD \div 2
                /\ timestamp'.l < timestamp.old
                /\ timestamp'.old = timestamp'.l
             \/ /\ dlast'.tstamp_branch = "large" \/ dlast'.no_previous_before
                /\ timestamp'.long_timestamp_found = timestamp.long_timestamp_found
                /\ \E j \in index' + 1 .. in_size :
                       rte_buffer[j].kind = "FMT" /\ rte_buffer[j].id = 0]_vars

\* A buffer has lost a word and an error was reported; the low word has
\* wrapped without an increment of tstamp_h, which is 2, and the message
\* LONG_TIMESTAMP that follows sets it to the high word 3 that it carries.
C14_Witness ==
    /\ LongTimestampProcessed
    /\ CarriedHighWord = 3
    /\ timestamp.h = 3
    /\ dlast.h_before = 2
    /\ dlast.l_before = 1
    /\ total_errors > 0

(***************************************************************************)
(* Selected text: parse_indexed_text() of the parser and                   *)
(* print_selected_text() of vcd.h.  A character is its code, a string is   *)
(* the sequence of its characters without the final '\0'.                  *)
(***************************************************************************)
\* The characters '|' and '}'.
BAR == 124
BRACE == 125

\* The loop of parse_indexed_text(): t is the text after the '{', buff[k] of
\* the program is buff[k + 1] here.
RECURSIVE indexed_text_loop(_, _, _, _, _)
indexed_text_loop(t, idx, buff, start_index, number_of_substrings) ==
    IF idx > Len(t)
    THEN [error |-> "", buff |-> buff, idx |-> idx, n |-> number_of_substrings]
    ELSE IF idx >= MAX_INPUT_LINE_LENGTH - 1
    THEN [error |-> "ERR_PARSE_LINE_TOO_LONG", buff |-> buff, idx |-> idx,
          n |-> number_of_substrings]
    ELSE
    LET c == t[idx]
        b1 == [buff EXCEPT ![idx + 1] = c]
        len == idx - start_index - 1
    IN  IF c \notin {BAR, BRACE}
        THEN indexed_text_loop(t, idx + 1, b1, start_index, number_of_substrings)
        ELSE IF len < 1 \/ len > 255
        THEN [error |-> "ERR_PARSE_BAD_INDEXED_TEXT_LENGTH", buff |-> b1, idx |-> idx,
              n |-> number_of_substrings]
        ELSE LET b2 == [b1 EXCEPT ![start_index + 1] = len]
             IN  IF c = BRACE
                 THEN [error |-> "", buff |-> b2, idx |-> idx,
                       n |-> number_of_substrings + 1]
                 ELSE indexed_text_loop(t, idx + 1, b2, idx, number_of_substrings + 1)

\* duplicate_string(): the characters up to the first '\0', and the '\0'.
duplicate_string(str) ==
    LET end == CHOOSE k \in 1 .. Len(str) :
                   str[k] = 0 /\ \A j \in 1 .. k - 1 : str[j] # 0
    IN  SubSeq(str, 1, end)

\* parse_indexed_text() and save_the_indexed_text_line(): the error, or the
\* string that g_msg.enums[].in_file_txt points to.
parse_indexed_text(t) ==
    LET r == indexed_text_loop(t, 1, [k \in 1 .. MAX_INPUT_LINE_LENGTH |-> 0], 0, 0)
        buff == [r.buff EXCEPT ![r.idx + 1] = 0]
    IN  IF r.error # "" THEN [error |-> r.error, in_file_txt |-> <<>>]
        ELSE IF r.n < 2
        THEN [error |-> "ERR_PARSE_INDEXED_TEXT_ATLEAST_2_OPTIONS", in_file_txt |-> <<>>]
        ELSE [error |-> "", in_file_txt |-> duplicate_string(buff)]

\* The loop of copy_selected_text(): pos is the distance of y_text from the
\* start of the string, left the number of the iterations that remain.
RECURSIVE skip_texts(_, _, _)
skip_texts(y_text, pos, left) ==
    LET text_length == y_text[pos + 1] IN
    IF left = 0 \/ y_text[pos + 1 + text_length + 1] = 0
    THEN pos
    ELSE skip_texts(y_text, pos + text_length + 1, left - 1)

\* copy_selected_text(): the contents of txt_buffer.
copy_selected_text(y_text, idx) ==
    IF y_text # <<>> /\ y_text[1] # 0
    THEN LET pos == skip_texts(y_text, 0, idx)
             text_length == y_text[pos + 1]
         IN  IF text_length > 0 THEN SubSeq(y_text, pos + 2, pos + 1 + text_length)
             ELSE <<>>
    ELSE <<>>

\* get_selected_text(): the static txt_buffer after the call; <<>> as
\* y_text is the NULL pointer.
get_selected_text(type, y_text, idx, txt_buffer) ==
    IF type \in {"Y_TEXT_TYPE", "IN_FILE_TYPE"}
    THEN IF y_text = <<>> THEN txt_buffer ELSE copy_selected_text(y_text, idx)
    ELSE txt_buffer

\* (unsigned)(g_msg.value.data_u64): the low 32 bits of the value
\* hi * 2^32 + lo.
Unsigned(data_u64) == data_u64.lo

\* The texts "ok", "warn" and "err".
TextOk == <<111, 107>>
TextWarn == <<119, 97, 114, 110>>
TextErr == <<101, 114, 114>>

\* The indexed text of the options opts as the format definition has it
\* after the '{'.
RECURSIVE IndexedText(_)
IndexedText(opts) ==
    IF Len(opts) = 1 THEN opts[1] \o <<BRACE>>
    ELSE opts[1] \o <<BAR>> \o IndexedText(Tail(opts))

\* Indexed texts of one to four options, one of them with an empty option.
IndexedTexts ==
    {IndexedText(o) : o \in UNION {[1 .. n -> {TextOk, TextWarn, TextErr}] : n \in 1 .. 4}}
        \cup {IndexedText(<<TextOk, <<>>, TextErr>>)}

\* The values of the slot.
SlotValues == [hi : {0, 1}, lo : 0 .. MaxSlotValue]

\* A format definition with an indexed text that the parser has accepted, and
\* a value slot %Y of it.
InitSelectedText ==
    /\ ParserStart
    /\ sync = NoFiles
    /\ stream = NoStream
    /\ \E t \in {x \in IndexedTexts : parse_indexed_text(x).error = ""} :
           sel = [text |-> t, type |-> "Y_TEXT_TYPE",
                  in_file_txt |-> parse_indexed_text(t).in_file_txt,
                  data_u64 |-> [hi |-> 0, lo |-> 0],
                  txt_buffer |-> <<>>, printed |-> FALSE]

\* print_selected_text() for a value v of the slot.
print_selected_text ==
    \E v \in SlotValues :
        /\ sel' = [sel EXCEPT !.data_u64 = v,
                              !.txt_buffer = get_selected_text(sel.type, sel.in_file_txt,
                                                               Unsigned(v), sel.txt_buffer),
                              !.printed = TRUE]
        /\ UNCHANGED <<parse_vars, main_vars, total_errors, rte_buffer, hdr_data, param,
                       msg_fmt_id, asm_words, assembled_msg, message_cnt, timestamp,
                       msg_error_counter, error_log, error_counter, dlast, sync, stream>>

SpecSelectedText == InitSelectedText /\ [][print_selected_text]_vars

\* The options of the indexed text t, which ends with '}'; cur is the option
\* that is being read.
RECURSIVE OptionsOf(_, _)
OptionsOf(t, cur) ==
    IF t = <<>> THEN <<>>
    ELSE IF Head(t) = BRACE THEN <<cur>>
    ELSE IF Head(t) = BAR THEN <<cur>> \o OptionsOf(Tail(t), <<>>)
    ELSE OptionsOf(Tail(t), Append(cur, Head(t)))

\* C16: the text printed for the unsigned value v of a slot %Y is option
\* number v (counted from 0) of the list of the slot when v is smaller than
\* the number of the options, and the last option otherwise: for ok|warn|err
\* the value 1 gives warn and the value 5 gives err.
C16_SelectedTextClamped ==
    sel.printed =>
        LET opts == OptionsOf(sel.text, <<>>)
            v == sel.data_u64
        IN  /\ sel.txt_buffer =
                   IF v.hi = 0 /\ v.lo < Len(opts) THEN opts[v.lo + 1] ELSE opts[Len(opts)]
            /\ (sel.text = IndexedText(<<TextOk, TextWarn, TextErr>>) /\ v.hi = 0) =>
                   /\ v.lo = 1 => sel.txt_buffer = TextWarn
                   /\ v.lo = 5 => sel.txt_buffer = TextErr

(***************************************************************************)
(* The end of the compilation of a format file: parse_file_handling.c.     *)
(* A file is a record: whether it exists, and its bytes.                   *)
(***************************************************************************)
File(bytes) == [exists |-> TRUE, bytes |-> bytes]

\* fread(buffer, 1, CMP_BUFSIZ, file) at the position pos of the file.
fread(bytes, pos) ==
    SubSeq(bytes, pos + 1,
           IF pos + CMP_BUFSIZ < Len(bytes) THEN pos + CMP_BUFSIZ ELSE Len(bytes))

\* The loop of compare_and_close_files(): both files are at the position pos.
RECURSIVE compare_blocks(_, _, _)
compare_blocks(src, dst, pos) ==
    LET src_buffer == fread(src, pos)
        dst_buffer == fread(dst, pos)
    IN  IF Len(src_buffer) # Len(dst_buffer) THEN FALSE
        ELSE IF Len(src_buffer) = 0 THEN TRUE
        ELSE IF src_buffer # dst_buffer THEN FALSE
        ELSE compare_blocks(src, dst, pos + Len(src_buffer))

\* A comparison that stops after the first block.
compare_first_block(src, dst) == fread(src, 0) = fread(dst, 0)

\* compare_and_close_files(): are_identical.
compare_and_close_files(src, dst) == compare_blocks(src, dst, 0)

\* report_parsing_error()
report_file_error(f, err) == [f EXCEPT !.reported = Append(@, err)]

\* utf8_remove(work_file_name) and the report of its failure.
remove_work_file(f, os) ==
    IF os.remove_work THEN [f EXCEPT !.work = NoFile]
    ELSE report_file_error(f, "ERR_PARSE_FILE_WORK_CANNOT_REMOVE")

\* check_and_replace_header_file(): os holds the results of the file
\* operations of the operating system.
check_and_replace_header_file(f, os) ==
    IF f.parsing_errors_found THEN remove_work_file(f, os)
    ELSE IF f.header.exists /\ os.header_opens
    THEN IF compare_and_close_files(f.header.bytes, f.work.bytes)
         THEN remove_work_file(f, os)
         ELSE IF ~os.remove_old
         THEN report_file_error(f, "ERR_PARSE_FILE_HEADER_CANNOT_REMOVE")
         ELSE IF os.rename_work
         THEN [f EXCEPT !.header = f.work, !.work = NoFile]
         ELSE report_file_error([f EXCEPT !.header = NoFile],
                                "ERR_PARSE_FILE_WORK_CANNOT_RENAME")
    ELSE IF f.header.exists
    THEN report_file_error(f, "ERR_PARSE_FILE_HEADER_CANNOT_OPEN")
    ELSE IF os.rename_work
    THEN [f EXCEPT !.header = f.work, !.work = NoFile]
    ELSE report_file_error(f, "ERR_PARSE_FILE_WORK_CANNOT_RENAME")

\* check_and_replace_work_file()
check_and_replace_work_file(f, os) ==
    IF f.write_output_to_header THEN check_and_replace_header_file(f, os)
    ELSE IF f.parsing_errors_found \/ compare_and_close_files(f.fmt.bytes, f.work.bytes)
    THEN remove_work_file(f, os)
    ELSE
    LET f1 == IF f.create_backup
              THEN IF os.rename_old
                   THEN [ok |-> TRUE, f |-> [f EXCEPT !.backup = f.fmt, !.fmt = NoFile]]
                   ELSE [ok |-> FALSE,
                         f |-> report_file_error(
                                   [f EXCEPT !.backup = IF os.remove_backup THEN NoFile ELSE @,
                                             !.work = IF os.remove_work THEN NoFile ELSE @],
                                   "ERR_PARSE_FILE_FMT_CANNOT_RENAME")]
              ELSE IF os.remove_old
                   THEN [ok |-> TRUE, f |-> [f EXCEPT !.fmt = NoFile]]
                   ELSE [ok |-> FALSE,
                         f |-> report_file_error(f, "ERR_PARSE_FILE_FMT_CANNOT_REMOVE")]
    IN  IF ~f1.ok THEN f1.f
        ELSE IF os.rename_work
        THEN [f1.f EXCEPT !.fmt = f.work, !.work = NoFile]
        ELSE report_file_error(f1.f, "ERR_PARSE_FILE_WORK_CANNOT_RENAME")

\* The files of at most MaxFileBytes bytes.
FileContents == UNION {[1 .. n -> {1, 2}] : n \in 0 .. MaxFileBytes}

\* The results of the file operations.
FileResults ==
    [header_opens : BOOLEAN, remove_work : BOOLEAN, remove_old : BOOLEAN,
     remove_backup : BOOLEAN, rename_old : BOOLEAN, rename_work : BOOLEAN]

\* -c: a format file has been parsed and its work file is written; the
\* header of a file .fmt exists or not.
InitFiles ==
    /\ ParserStart
    /\ sel = NoSelectedText
    /\ stream = NoStream
    /\ \E fmt \in {<<>>, <<1>>, <<1, 2, 1>>}, work \in FileContents,
          header \in {NoFile} \cup {File(b) : b \in FileContents},
          backup \in {NoFile, File(<<2>>)}, to_header, errors, back \in BOOLEAN :
           sync = [NoFiles EXCEPT !.fmt = File(fmt), !.work = File(work),
                                  !.header = IF to_header THEN header ELSE NoFile,
                                  !.backup = backup,
                                  !.write_output_to_header = to_header,
                                  !.parsing_errors_found = errors,
                                  !.create_backup = back]

\* parse_fmt_file() calls check_and_replace_work_file() at the end of the
\* file.
CheckAndReplaceWorkFile ==
    /\ ~sync.done
    /\ \E os \in FileResults :
           sync' = [check_and_replace_work_file(sync, os) EXCEPT
                        !.done = TRUE, !.os = os,
                        !.was = [fmt |-> sync.fmt, header |-> sync.header,
                                 work |-> sync.work, backup |-> sync.backup]]
    /\ UNCHANGED <<parse_vars, main_vars, total_errors, rte_buffer, hdr_data, param,
                   msg_fmt_id, asm_words, assembled_msg, message_cnt, timestamp,
                   msg_error_counter, error_log, error_counter, dlast, sel, stream>>

SpecFiles == InitFiles /\ [][CheckAndReplaceWorkFile]_vars

\* The file that the work file is to replace, before and after the call: the
\* header of a file .fmt, and the source file itself otherwise.
OldTarget == IF sync.write_output_to_header THEN sync.was.header ELSE sync.was.fmt
NewTarget == IF sync.write_output_to_header THEN sync.header ELSE sync.fmt

\* Every file operation of the call has succeeded.
FileOperationsWork == \A k \in DOMAIN sync.os : sync.os[k]

\* The work file has taken the place of the old file.
WorkFileRenamed == NewTarget = sync.was.work /\ ~sync.work.exists

\* C17 as the specification states it: in compile mode an existing header is
\* left untouched when the work file is byte-identical to it, and when the
\* two differ in at least one byte the old file is deleted and the work file
\* is renamed to its name (the file operations are taken to succeed).
C17_ReplacedWheneverDifferent ==
    (sync.done /\ OldTarget.exists /\ FileOperationsWork) =>
        IF OldTarget.bytes = sync.was.work.bytes
        THEN NewTarget = OldTarget
        ELSE WorkFileRenamed

\* C17, amended: in compile mode, when the format file was parsed without an
\* error and the file operations succeed, an existing header is left
\* untouched (and the work file is removed) when the work file is
\* byte-identical to it, and when the two differ in at least one byte the old
\* file is deleted (with -back a source file other than .fmt is kept as .bak)
\* and the work file is renamed to its name.  When parsing errors were found
\* the header is left untouched and the work file is removed (if the header
\* can be opened and the work file can be removed), whether the two differ or
\* not.  Whatever file operation fails, a header that is byte-identical to
\* the work file is never replaced.
C17_ReplacedIfParsedAndDifferent ==
    (sync.done /\ OldTarget.exists) =>
        /\ (sync.parsing_errors_found \/ OldTarget.bytes = sync.was.work.bytes) =>
               /\ NewTarget = OldTarget
               /\ (sync.os.header_opens /\ sync.os.remove_work) => ~sync.work.exists
               /\ sync.backup = sync.was.backup
        /\ (/\ ~sync.parsing_errors_found
            /\ OldTarget.bytes # sync.was.work.bytes
            /\ FileOperationsWork) =>
               /\ WorkFileRenamed
               /\ sync.backup = IF ~sync.write_output_to_header /\ sync.create_backup
                                THEN OldTarget ELSE sync.was.backup

\* A header that differs from the work file behind the first block of the
\* comparison only has been replaced.
C17_Witness ==
    /\ sync.done
    /\ sync.write_output_to_header
    /\ ~sync.parsing_errors_found
    /\ sync.was.header = File(<<1, 2, 1>>)
    /\ sync.was.work = File(<<1, 2, 2>>)
    /\ sync.header = File(<<1, 2, 2>>)
    /\ ~sync.work.exists

(***************************************************************************)
(* Sub-packets: the format IDs carry bit 31 of the DATA words, messages    *)
(* continue over sub-packets with the same tag.                            *)
(***************************************************************************)
\* What the parser leaves for "MSGN_L" (format IDs 0 to 15), "MSG1_B" (16 and
\* 17), "MSG2_C" (20 to 23) and "EXT_MSG1_1_E" (24 to 27).
PacketTable ==
    [plans |-> <<UserPlan("MSGN", 0, "L", "TYPE_MSGN"),
                 UserPlan("MSG", 1, "B", "TYPE_MSG0_4"),
                 UserPlan("MSG", 2, "C", "TYPE_MSG0_4"),
                 [UserPlan("EXT_MSG", 2, "E", "TYPE_EXT_MSG")
                     EXCEPT !.ext_data_mask = 1],
                 SysPlan>>,
     g_fmt |-> [i \in 0 .. MAX_FMT_IDS - 1 |->
                   CASE i \in 0 .. 15 -> 1
                     [] i \in {16, 17} -> 2
                     [] i \in 20 .. 23 -> 3
                     [] i \in 24 .. 27 -> 4
                     [] i = topmost_fmt_id -> 5
                     [] OTHER -> NULL],
     fmt_ids_defined |-> 28]

\* DATA words with different values and FMT words whose format IDs differ in
\* the low bits; 29 has no definition.
PacketWords ==
    {DataWord(1), DataWord(2)} \cup {FmtWord(id, 1) : id \in {5, 17, 21, 22, 26, 27, 29}}

\* What the parser leaves for "MSG4_D" (format IDs 0 to 15).
Msg4Table ==
    [plans |-> <<UserPlan("MSG", 4, "D", "TYPE_MSG0_4"), SysPlan>>,
     g_fmt |-> [i \in 0 .. MAX_FMT_IDS - 1 |->
                   CASE i \in 0 .. 15 -> 1
                     [] i = topmost_fmt_id -> 2
                     [] OTHER -> NULL],
     fmt_ids_defined |-> 16]

\* k DATA words.
DataWords(k) == [i \in 1 .. k |-> DataWord(1)]

\* One or two sub-packets of four DATA words: of the format ID 0, of the
\* format ID 0 with another timestamp, or of a format ID without a definition.
FullPackets ==
    LET F == {FmtWord(0, 1), FmtWord(0, 2), FmtWord(20, 1)}
        P == {DataWords(4) \o <<f>> : f \in F}
    IN  P \cup {a \o b : a \in P, b \in P}

\* What follows them: a few words, or a sub-packet of up to five DATA words.
PacketTails ==
    BuffersOf({DataWord(1), UnfinishedWord, FmtWord(0, 1), FmtWord(0, 2)},
              ShortBufferWords)
        \cup {DataWords(k) \o <<FmtWord(0, 1)>> : k \in 0 .. 5}

InitPackets ==
    \/ InitDecodeWith(PacketTable, BuffersOf(PacketWords, ShortBufferWords), {FALSE},
                      {DefaultParam}, {1, 2})
    \/ InitDecodeWith(LongTable, {a \o b : a \in FullPackets, b \in PacketTails},
                      {FALSE}, {DefaultParam}, {1, 2})
    \/ InitDecodeWith(Msg4Table, {a \o b : a \in FullPackets, b \in PacketTails},
                      {FALSE}, {DefaultParam}, {1, 2})

SpecPackets == InitPackets /\ [][NextDecode(OneSlotError)]_vars

\* The words that the pass before has read, and the DATA words among them.
PassWords == SubSeq(rte_buffer, dlast.last_index + 1, index)
DataPositions == {k \in DOMAIN PassWords : PassWords[k].kind = "DATA"}

\* The FMT word that ends the sub-packet of the DATA word k.
FmtWordOf(k) ==
    CHOOSE j \in k + 1 .. Len(PassWords) :
        /\ PassWords[j].kind = "FMT"
        /\ \A i \in k + 1 .. j - 1 : PassWords[i].kind = "DATA"

\* The place of the DATA word k in the assembled message.
PlaceOf(k) == Cardinality({i \in DataPositions : i <= k})

\* The DATA words of the last sub-packet of the pass.
LastDataWords ==
    {k \in DataPositions : FmtWordOf(k) = Len(PassWords)}

\* The bits of the format ID that hold bit 31 of the DATA words and what is
\* logged with them: the whole format ID for a message with extended data,
\* its low four bits for any other.
LowBitsOf(id) ==
    IF g_fmt[id] # NULL /\ plans[g_fmt[id]].msg_type = "TYPE_EXT_MSG"
    THEN id ELSE id % 16

\* C21: after a pass that found a message, every DATA word of it is in the
\* assembled message with its value shifted right by one bit and with bit 31
\* taken from the format ID of the FMT word of its sub-packet (the last DATA
\* word from bit 0, the one before from bit 1, ...); the format ID of the
\* message is the one of the last FMT word without its n low bits, n the
\* number of DATA words in front of it, and additional_data holds the bits
\* that are left of the low bits of that format ID.
C21_Bit31FromFormatId ==
    dlast.code = "DATA_FOUND" =>
        /\ Len(PassWords) > 0
        /\ PassWords[Len(PassWords)].kind = "FMT"
        /\ Len(dlast.assembled) = Cardinality(DataPositions)
        /\ \A k \in DataPositions :
               dlast.assembled[PlaceOf(k)] =
                   [low31 |-> PassWords[k].v,
                    bit31 |-> BitOf(PassWords[FmtWordOf(k)].id, FmtWordOf(k) - k - 1)]
        /\ LET id == PassWords[Len(PassWords)].id
               n == Cardinality(LastDataWords)
           IN  /\ dlast.fmt_id = id - (id % Pow2(n))
               /\ dlast.additional_data = LowBitsOf(id) \div Pow2(n)

\* Two DATA words with different bit 31, and a bit that is left over.
C21_Witness ==
    /\ dlast.code = "DATA_FOUND"
    /\ Len(dlast.assembled) = 2
    /\ dlast.assembled[1].bit31 = 0
    /\ dlast.assembled[2].bit31 = 1
    /\ dlast.assembled[1].low31 # dlast.assembled[2].low31
    /\ dlast.additional_data # 0

\* The FMT words that the pass has read; each ends a sub-packet.
FmtPositions == {j \in DOMAIN PassWords : PassWords[j].kind = "FMT"}

\* The number of words of the sub-packet that the FMT word j ends, and the
\* number of DATA words of the message up to it.
SubPacketWords(j) ==
    LET before == {i \in FmtPositions : i < j}
    IN  IF before = {} THEN j ELSE j - (CHOOSE m \in before : \A i \in before : i <= m)
CollectedAt(j) == Cardinality({k \in DataPositions : k < j})

\* The message has the length of its plan after the sub-packet j.
ReachesLength(j) ==
    LET id == PassWords[j].id
        fmt_id == id - (id % Pow2(SubPacketWords(j) - 1))
    IN  /\ fmt_id < MAX_FMT_IDS
        /\ g_fmt[fmt_id] # NULL
        /\ LET p_fmt == plans[g_fmt[fmt_id]]
               length == IF p_fmt.msg_type = "TYPE_EXT_MSG" /\ p_fmt.msg_len >= 4
                         THEN p_fmt.msg_len - 4 ELSE p_fmt.msg_len
           IN  p_fmt.msg_len # 0 /\ length <= 4 * CollectedAt(j)

\* Neither the format ID of the FMT word j nor a format ID below it, down to
\* the next multiple of 16 and without that one, has a plan.
NoDefinition(j) ==
    LET id == PassWords[j].id
    IN  \/ id >= MAX_FMT_IDS
        \/ /\ g_fmt[id] = NULL
           /\ \A i \in id - (id % 16) + 1 .. id : g_fmt[i] = NULL

\* A FMT word with the tag of the FMT word j is among the five words after
\* it, with DATA words only in front of it.
ContinuationFollows(j) ==
    LET a == dlast.last_index + j
    IN  \E q \in a + 1 .. a + 5 :
            /\ q <= in_size
            /\ rte_buffer[q].kind = "FMT"
            /\ TagOf(rte_buffer[q]) = TagOf(PassWords[j])
            /\ \A k \in a + 1 .. q - 1 : rte_buffer[k].kind = "DATA"

\* The message goes on after the sub-packet j: another sub-packet was read
\* for it, or the pass ended with MESSAGE_TOO_LONG in front of one.
GoesOnAfter(j) == j < Len(PassWords) \/ dlast.code = "MESSAGE_TOO_LONG"

\* C22 as stated: after a pass that assembled a message, every sub-packet of
\* fewer than 5 words or with which the message reaches the length of its
\* plan is the last one of the message, and after any other sub-packet the
\* message goes on exactly when a FMT word with the same tag is found within
\* the next 5 words.
C22_ContinuesIfTagFollows ==
    dlast.code \in {"DATA_FOUND", "MESSAGE_TOO_LONG"} =>
        \A j \in FmtPositions :
            IF SubPacketWords(j) < 5 \/ ReachesLength(j)
            THEN ~GoesOnAfter(j)
            ELSE GoesOnAfter(j) <=> ContinuationFollows(j)

\* C22 amended: a sub-packet whose format ID has no definition completes the
\* message as well.
C22_ContinuesIfDefinedAndTagFollows ==
    dlast.code \in {"DATA_FOUND", "MESSAGE_TOO_LONG"} =>
        \A j \in FmtPositions :
            IF SubPacketWords(j) < 5 \/ ReachesLength(j) \/ NoDefinition(j)
            THEN ~GoesOnAfter(j)
            ELSE GoesOnAfter(j) <=> ContinuationFollows(j)

\* A message of a full sub-packet and a shorter one with the same tag.
C22_Witness ==
    /\ dlast.code = "DATA_FOUND"
    /\ Cardinality(FmtPositions) = 2
    /\ \E j \in FmtPositions :
           /\ j < Len(PassWords)
           /\ SubPacketWords(j) = 5
           /\ ~ReachesLength(j)
           /\ ContinuationFollows(j)
    /\ SubPacketWords(Len(PassWords)) < 5

\* The message is not complete with the last sub-packet of the pass and a
\* sub-packet that continues it follows.
ContinuationPending ==
    LET j == Len(PassWords)
    IN  /\ ~(SubPacketWords(j) < 5 \/ ReachesLength(j) \/ NoDefinition(j))
        /\ ContinuationFollows(j)

\* C23: the assembled message never holds more than 4 x max_msg_blocks DATA
\* words.  A pass ends with MESSAGE_TOO_LONG exactly when it has collected
\* that many words and a sub-packet that continues the message follows: the
\* error is reported, the words of that sub-packet are not read and the
\* assembled message holds the words collected before.
C23_MessageLengthCapped ==
    /\ asm_words <= 4 * hdr_data.max_msg_blocks
    /\ Len(dlast.assembled) <= 4 * hdr_data.max_msg_blocks
    /\ dlast.code \in {"DATA_FOUND", "MESSAGE_TOO_LONG"} =>
           /\ (ContinuationPending /\ CollectedAt(Len(PassWords)) >= 4 * hdr_data.max_msg_blocks)
                  <=> dlast.code = "MESSAGE_TOO_LONG"
           /\ dlast.code = "MESSAGE_TOO_LONG" =>
                  /\ dlast.reported = <<<<"ERR_MESSAGE_TOO_LONG", 0>>>>
                  /\ asm_words = CollectedAt(Len(PassWords))
                  /\ asm_words = 4 * hdr_data.max_msg_blocks
                  /\ index < in_size

\* Two full sub-packets were collected with a limit of eight words and a
\* third sub-packet of the message follows.
C23_Witness ==
    /\ dlast.code = "MESSAGE_TOO_LONG"
    /\ hdr_data.max_msg_blocks = 2
    /\ asm_words = 8
    /\ Cardinality(FmtPositions) = 2

(***************************************************************************)
(* Messages of rte_msgx(): the last byte of the last DATA word is the size *)
(* of the message in bytes.                                                *)
(***************************************************************************)
\* What the parser leaves for "MSGX_X" (format IDs 0 to 15).
MsgxTable ==
    [plans |-> <<[UserPlan("MSGX", 0, "X", "TYPE_MSGX") EXCEPT !.msg_len = 0],
                 SysPlan>>,
     g_fmt |-> [i \in 0 .. MAX_FMT_IDS - 1 |->
                   CASE i \in 0 .. 15 -> 1
                     [] i = topmost_fmt_id -> 2
                     [] OTHER -> NULL],
     fmt_ids_defined |-> 16]

\* The last DATA word of a message: the size byte and one of the three bytes
\* below it set or none.
MsgxLastWords ==
    {DataWord(size * Pow2(24) + pad) :
         size \in 0 .. 4 * ShortBufferWords, pad \in {0, 1, 256, 65536}}

\* Messages of up to ShortBufferWords DATA words; the format IDs 1 and 9 set
\* bit 31 of the last DATA word.
MsgxMessages ==
    {<<FmtWord(id, 1)>> : id \in {0, 1, 8, 9}}
        \cup {DataWords(w - 1) \o <<l, FmtWord(id, 1)>> :
                  w \in 1 .. ShortBufferWords, l \in MsgxLastWords, id \in {0, 1, 8, 9}}

\* A message of one byte behind the word of an unfinished write, behind DATA
\* words without a FMT word, and behind a full sub-packet with its tag.
MsgxDamaged ==
    LET m == <<DataWord(Pow2(24)), FmtWord(8, 1)>>
    IN  {<<UnfinishedWord>> \o m, DataWords(MAX_RAW_DATA_SIZE) \o m,
         DataWords(4) \o <<FmtWord(0, 1)>> \o m}

InitMsgx ==
    InitDecodeWith(MsgxTable, MsgxMessages \cup MsgxDamaged, {FALSE}, {DefaultParam},
                   {1})

SpecMsgx == InitMsgx /\ [][NextDecode(OneSlotError)]_vars

\* The message of the pass: its last DATA word as a number of 32 bits without
\* the sign, its size byte and the byte b of the last word.
MsgxPass == dlast.code = "DATA_FOUND" /\ plans[g_fmt[dlast.fmt_id]].msg_type = "TYPE_MSGX"
MsgxWords == Len(dlast.assembled)
MsgxSize ==
    LET w == dlast.assembled[MsgxWords] IN w.bit31 * 128 + w.low31 \div Pow2(24)
MsgxByte(b) == (dlast.assembled[MsgxWords].low31 \div Pow2(8 * b)) % 256

\* The size byte fits the number of words and the bytes from the offset
\* MsgxSize up to the size byte are zero.
MsgxValid ==
    /\ MsgxWords > 0
    /\ 4 * MsgxWords - 4 <= MsgxSize
    /\ MsgxSize <= 4 * MsgxWords - 1
    /\ \A b \in 0 .. 2 : 4 * MsgxWords - 4 + b >= MsgxSize => MsgxByte(b) = 0

MsgxErrors ==
    {"ERR_MSGX_SIZE_EMPTY", "ERR_MSGX_SIZE_TOO_LARGE", "ERR_MSGX_SIZE_TOO_SMALL",
     "ERR_MSGX_CORRUPTED"}

\* C24: the values of a MSGX message are printed exactly when its size byte
\* s satisfies 4w - 4 <= s <= 4w - 1 and the bytes between the offset s and
\* the size byte are zero; the size of a printed message is s, and for any
\* other message one of the MSGX errors is reported and no value is printed.
C24_MsgxSizeChecked ==
    MsgxPass =>
        /\ dlast.values_printed <=> MsgxValid
        /\ dlast.values_printed =>
               /\ dlast.asm_size = MsgxSize
               /\ \A i \in DOMAIN dlast.reported : dlast.reported[i][1] \notin MsgxErrors
        /\ ~dlast.values_printed =>
               \E i \in DOMAIN dlast.reported : dlast.reported[i][1] \in MsgxErrors

\* A message of two words and six bytes with a zero byte of padding.
C24_Witness ==
    /\ MsgxPass
    /\ MsgxWords = 2
    /\ MsgxSize = 6
    /\ dlast.values_printed
    /\ dlast.asm_size = 6

(***************************************************************************)
(* The classification of the timestamp difference.                         *)
(***************************************************************************)
\* The last pass has decoded a message whose timestamp was processed by
\* process_timestamp_value().
TimestampProcessed == dlast.code = "DATA_FOUND" /\ dlast.tstamp_branch # "none"

\* The difference is negative and not below the limit.
SlightlyOlder ==
    /\ TimestampProcessed
    /\ LastTimeDiff < 0
    /\ LastTimeDiff >= param.max_negative_tstamp_diff

\* C25 as stated: a message whose timestamp difference is negative but not
\* below MAX_NEG leaves tstamp_h and tstamp_l_old as they were before it.
C25_OutOfOrderKeepsOld ==
    SlightlyOlder =>
        /\ timestamp.h = dlast.h_before
        /\ timestamp.old = dlast.old_before

\* C25 amended: it does so when the decoder has a previous timestamp, and
\* no scan is run for the message.
C25_OutOfOrderKeepsOldIfPrevious ==
    (SlightlyOlder /\ ~dlast.no_previous_before) =>
        /\ timestamp.h = dlast.h_before
        /\ timestamp.old = dlast.old_before
        /\ dlast.searched_after = dlast.searched_before

\* A message one tenth of the period behind the one before it.
C25_Witness ==
    /\ SlightlyOlder
    /\ ~dlast.no_previous_before
    /\ LastTimeDiff = DEFAULT_NEGATIVE_TIMESTAMP_DIFF
    /\ timestamp.old = OldStamp
    /\ timestamp.l # timestamp.old

(***************************************************************************)
(* The overflow of the low word of the timestamp: buffers of messages      *)
(* before the wrap, after it and late in the period.                       *)
(***************************************************************************)
\* A timestamp in the upper half of the period that is far from both its ends.
HighStamp == (NORMALIZED_TSTAMP_PERIOD * 70) \div 100

InitWrap ==
    \/ InitDecode(SystemTable,
                  StreamsOf({Msg0(ts) : ts \in WrapStamps \cup {HighStamp}},
                            MaxMessages + 1),
                  {FALSE}, {DefaultParam})
    \/ InitShortStream

SpecWrap == InitWrap /\ [][NextDecode(OneSlotError)]_vars

\* The last pass has decoded a message at which the decoder has detected
\* the overflow of the low word.
WrapDetected == TimestampProcessed /\ dlast.tstamp_branch = "overflow"

\* The number of messages from the last increment of tstamp_h to the
\* message of the last pass.
SinceIncrement == message_cnt - dlast.incremented_before

\* C26: the detection of a wrap-around increments tstamp_h at most once in
\* four consecutive messages.  A wrap detected fewer than four messages after
\* the last increment leaves tstamp_h as it was, any other one increments it
\* by one and is remembered as the last increment, tstamp_l_old becomes the
\* timestamp of the message in both cases, and the number of the message of
\* the last increment changes at no other message.
C26_WrapIncrementsOncePerFour ==
    /\ [](WrapDetected =>
             /\ timestamp.old = timestamp.l
             /\ IF SinceIncrement < 4
                THEN /\ timestamp.h = dlast.h_before
                     /\ timestamp.msg_long_tstamp_incremented = dlast.incremented_before
                ELSE /\ timestamp.h = UInc(dlast.h_before)
                     /\ timestamp.msg_long_tstamp_incremented = message_cnt)
    /\ [][timestamp'.msg_long_tstamp_incremented # timestamp.msg_long_tstamp_incremented
            => /\ WrapDetected'
               /\ timestamp'.h = UInc(timestamp.h)
               /\ timestamp'.msg_long_tstamp_incremented = message_cnt']_vars
    /\ [](timestamp.msg_long_tstamp_incremented <= message_cnt)

\* The fourth message has wrapped and incremented tstamp_h; the sixth one
\* wraps again, two messages later, and leaves it.
C26_Witness ==
    /\ WrapDetected
    /\ message_cnt = 6
    /\ dlast.incremented_before = 4
    /\ dlast.old_before = HighStamp
    /\ timestamp.h = 1
    /\ timestamp.old = 1

(***************************************************************************)
(* A timestamp far from the one before it: buffers of messages whose       *)
(* timestamps are far apart, of LONG_TIMESTAMP messages and of messages    *)
(* that are not printed.                                                   *)
(***************************************************************************)
\* The format definitions of rte_system.fmt and of SystemTable, followed by
\* "MSGX_X" with the format IDs 16 to 31.
GapTable ==
    [plans |-> Append(SystemTable.plans,
                      [UserPlan("MSGX", 0, "X", "TYPE_MSGX") EXCEPT !.msg_len = 0]),
     g_fmt |-> [i \in 0 .. MAX_FMT_IDS - 1 |->
                   IF i \in 16 .. 31 THEN Len(SystemTable.plans) + 1
                   ELSE SystemTable.g_fmt[i]],
     fmt_ids_defined |-> 32]

\* A message MSGX_X of one word whose size byte is larger than the message:
\* prepare_message_msgx() reports it and it is not printed.
BadMsgx(ts) == <<DataWord(5 * Pow2(24)), FmtWord(16, ts)>>

\* Two timestamps that are far from each other in both directions.
GapStamps == {1, OldStamp}

GapMessages ==
    UNION {{Msg0(ts), LongTimestamp(2, ts), BadMsgx(ts)} : ts \in GapStamps}

InitGap ==
    \/ InitDecodeWith(GapTable, StreamsOf(GapMessages, MaxMessages - 1), BOOLEAN,
                      {DefaultParam}, {1})
    \/ InitShortStream

SpecGap == InitGap /\ [][NextDecode(OneSlotError)]_vars

\* The last pass has decoded a message whose timestamp difference is in none
\* of the four accepted ranges.
LargeDifference == TimestampProcessed /\ dlast.tstamp_branch = "large"

\* The last pass has called long_timestamp_found().
ScanInitiated == dlast.scans > 0

\* print_message() has printed the message of the last pass with the mark
\* of a suspicious timestamp.
PrintedWithMark ==
    /\ dlast.values_printed
    /\ timestamp.suspicious_timestamp = dlast.suspicious_before + 1
    /\ ~timestamp.mark_problematic_tstamps

\* C27 as stated: a message whose timestamp difference is in none of the four
\* accepted ranges starts a forward scan for the next LONG_TIMESTAMP message
\* and is printed with the mark of a suspicious timestamp.
C27_LargeScansAndMarks ==
    LargeDifference => ScanInitiated /\ PrintedWithMark

\* C27 amended: for such a message the scan is started when the decoder has
\* no previous timestamp or has not walked the words up to the end of the
\* message yet, and only then; the message carries the mark when the decoder
\* has a previous timestamp and prints the message, a message that is not
\* printed leaves the mark to the next printed one, and without a previous
\* timestamp the message is not marked.
C27_LargeScansUnwalkedAndMarksAfterPrevious ==
    LargeDifference =>
        /\ ScanInitiated <=>
               dlast.no_previous_before \/ dlast.searched_before < index
        /\ IF dlast.no_previous_before
           THEN /\ timestamp.suspicious_timestamp = dlast.suspicious_before
                /\ ~timestamp.mark_problematic_tstamps
           ELSE IF dlast.values_printed THEN PrintedWithMark
           ELSE /\ timestamp.suspicious_timestamp = dlast.suspicious_before
                /\ timestamp.mark_problematic_tstamps

\* A printed message far from the one before it runs the scan, which finds
\* the LONG_TIMESTAMP message behind it, and is marked.
C27_Witness ==
    /\ LargeDifference
    /\ ~dlast.no_previous_before
    /\ ScanInitiated
    /\ PrintedWithMark
    /\ dlast.searched_after > index
    /\ timestamp.h = 2

(***************************************************************************)
(* The width of the timestamp difference.                                  *)
(***************************************************************************)
\* Half of the period of the low word: 2^31.
HalfPeriod == NORMALIZED_TSTAMP_PERIOD \div 2

\* C28 as stated: the difference that classifies the timestamp of a message
\* is a signed value of 32 bits, from -2^31 to 2^31 - 1.
C28_DifferenceIsModular ==
    TimestampProcessed =>
        /\ dlast.time_diff >= -HalfPeriod
        /\ dlast.time_diff < HalfPeriod

\* C28 amended: the difference is tstamp_l - tstamp_l_old in 64 bits without
\* a reduction, a value from -(2^32 - 1) to 2^32 - 1; the difference of a
\* wrap-around is below -2^31 and the one of a message of the previous
\* period is 2^31 or more.
C28_DifferenceIsNotReduced ==
    TimestampProcessed =>
        /\ dlast.time_diff = timestamp.l - dlast.old_before
        /\ dlast.time_diff > -NORMALIZED_TSTAMP_PERIOD
        /\ dlast.time_diff < NORMALIZED_TSTAMP_PERIOD
        /\ dlast.tstamp_branch = "overflow" => dlast.time_diff < -HalfPeriod
        /\ dlast.tstamp_branch = "previous_period" => dlast.time_diff >= HalfPeriod

\* A message just behind the wrap of the low word that follows one just in
\* front of it: the difference is two steps above -2^32.
C28_Witness ==
    /\ TimestampProcessed
    /\ dlast.tstamp_branch = "overflow"
    /\ dlast.old_before = NORMALIZED_TSTAMP_PERIOD - 1
    /\ dlast.time_diff = 2 - NORMALIZED_TSTAMP_PERIOD

(***************************************************************************)
(* The streaming mode: the binary file is loaded block by block while it   *)
(* is decoded.                                                             *)
(***************************************************************************)
\* load_streaming_log_data(): last_index is the index of the header.
LoadStreamingLogData ==
    /\ mpc = "load"
    /\ IF stream.file = <<>>
       THEN /\ mpc' = "exit_fatal_load"
            /\ UNCHANGED <<index, in_size, rte_buffer, stream, total_errors,
                           error_counter>>
       ELSE \E last_index \in {0, 1} :
            \E g \in {IF last_index # 0
                      THEN report_problem(Asm, "ERR_INDEX_SHOULD_BE_ZERO", last_index)
                      ELSE Asm} :
            \E r \in {load_data_block(g, 0, rte_buffer,
                                      [stream EXCEPT !.complete_file_loaded = FALSE])} :
                /\ mpc' = IF r.stream.overrun THEN "overrun" ELSE "decode"
                /\ index' = r.g.index
                /\ in_size' = r.in_size
                /\ rte_buffer' = r.rte_buffer
                /\ stream' = r.stream
                /\ total_errors' = r.g.total_errors
                /\ error_counter' = r.g.error_counter
    /\ UNCHANGED <<parse_vars, binary_file_decoding_finished, exit_code, hdr_data,
                   param, msg_fmt_id, asm_words, assembled_msg, message_cnt, timestamp,
                   msg_error_counter, error_log, dlast, sel, sync>>

NextStreaming(E) == LoadStreamingLogData \/ NextDecode(E)

\* The files of the streaming mode: messages with two timestamps that are
\* far from each other and LONG_TIMESTAMP messages.
StreamingFiles ==
    StreamsOf({Msg0(1), Msg0(OldStamp), LongTimestamp(2, OldStamp)}, MaxMessages + 1)

\* Process_binary_data_file() has loaded the header of a file of the
\* streaming mode and has allocated nothing yet.
InitStreaming ==
    \/ /\ InitDecoder(GapTable, BOOLEAN, {DefaultParam}, {1})
       /\ mpc = "load"
       /\ rte_buffer = [i \in 1 .. RTEDBG_BUFFER_SIZE |-> DataWord(0)]
       /\ in_size = 0
       /\ \E f \in StreamingFiles :
              stream = [NoStream EXCEPT !.complete_file_loaded = FALSE, !.file = f]
    \/ InitShortStream

SpecStreaming == InitStreaming /\ [][NextStreaming(OneSlotError)]_vars

\* The last pass has decoded a message with a previous timestamp whose
\* timestamp difference is in none of the four accepted ranges.
GapTriggered == LargeDifference /\ ~dlast.no_previous_before

\* The words behind the message of the last pass had not been walked by
\* long_timestamp_found() before the pass.
NotWalkedYet == dlast.walked_before <= dlast.end_index

\* C29: the scan for a LONG_TIMESTAMP message that a gap triggers is run
\* exactly when the words behind the message have not been walked yet, also
\* after load_data_block() has moved the words that are not decoded yet to
\* the front of the buffer: words that were walked are not walked again and
\* the mark suppresses no scan of words that were not walked.
C29_ScanExactlyWhenUnwalked ==
    GapTriggered => (ScanInitiated <=> NotWalkedYet)

(***************************************************************************)
(* The post-mortem mode: the file holds the circular buffer of the target. *)
(***************************************************************************)
\* load_data_from_binary_file(), case MODE_POST_MORTEM with a file that is
\* not shorter than the buffer and last_index not behind the buffer:
\* load_post_mortem_data().
LoadPostMortemData ==
    /\ mpc = "load_post_mortem"
    /\ \E r \in {load_post_mortem_data(Asm, stream)} :
           /\ mpc' = IF r.fatal THEN "exit_fatal_load"
                     ELSE IF r.overrun THEN "overrun" ELSE "decode"
           /\ index' = r.g.index
           /\ in_size' = r.in_size
           /\ rte_buffer' = r.rte_buffer
           /\ stream' = [stream EXCEPT !.fatal = r.fatal, !.overrun = r.overrun]
           /\ total_errors' = r.g.total_errors
           /\ error_counter' = r.g.error_counter
    /\ UNCHANGED <<parse_vars, binary_file_decoding_finished, exit_code, hdr_data,
                   param, msg_fmt_id, asm_words, assembled_msg, message_cnt, timestamp,
                   msg_error_counter, error_log, dlast, sel, sync>>

NextPostMortem(E) == LoadPostMortemData \/ NextDecode(E)

\* The number of words of the circular buffers with their trailer of four
\* words.
CircularBufferSizes == {4, 9}

\* The word at the place i of a circular buffer: a message MSG0_A, a DATA
\* word or a word that was never written.
CircularWord(kind, i) ==
    CASE kind = "FMT" -> FmtWord(4, i)
      [] kind = "DATA" -> DataWord(i)
      [] OTHER -> UnfinishedWord

\* The kinds of the last five words of a buffer: FMT and DATA words in any
\* order, or messages in front of words that were never written.
TrailerKinds(n) ==
    [1 .. n -> {"FMT", "DATA"}]
        \cup {[i \in 1 .. n |-> IF i <= j THEN "FMT" ELSE "FFFF"] : j \in 0 .. n}

\* The kinds of the words in front of them: messages, behind words that were
\* never written.
HeadKinds(n) == {[i \in 1 .. n |-> IF i <= j THEN "FFFF" ELSE "FMT"] : j \in 0 .. n}

\* The circular buffers of n words, and the files that hold one of them and
\* at most one word more.
CircularBuffers(n) ==
    LET t == IF n < 5 THEN n ELSE 5
    IN  {[i \in 1 .. n |-> CircularWord((h \o k)[i], i)] :
             h \in HeadKinds(n - t), k \in TrailerKinds(t)}

PostMortemFiles(n) ==
    CircularBuffers(n) \cup {Append(b, FmtWord(4, n + 1)) : b \in CircularBuffers(n)}

InitPostMortem ==
    \/ /\ InitDecoder(SystemTable, {FALSE}, {DefaultParam}, {1})
       /\ mpc = "load_post_mortem"
       /\ rte_buffer = <<>>
       /\ in_size = 0
       /\ \E n \in CircularBufferSizes :
          \E f \in PostMortemFiles(n), li \in 0 .. n, p \in BOOLEAN :
              stream = [NoStream EXCEPT
                            !.file = f,
                            !.rte_header = [last_index |-> li, buffer_size |-> n,
                                            buffer_size_is_power_of_2 |-> p]]
    \/ InitShortStream

SpecPostMortem == InitPostMortem /\ [][NextPostMortem({<<>>})]_vars

\* The loader has run on a circular buffer.
PostMortemLoaded == stream.rte_header.buffer_size > 0 /\ mpc # "load_post_mortem"

\* The circular buffer in the file, as the header describes it.
CircularImage == SubSeq(stream.file, 1, stream.rte_header.buffer_size)

\* The words of s at the places from .. upto - 1 (counted from zero) that
\* exist.
Region(s, from, upto) ==
    LET a == IF from < 0 THEN 0 ELSE from
        b == IF upto > Len(s) THEN Len(s) ELSE upto
    IN  IF b <= a THEN <<>> ELSE SubSeq(s, a + 1, b)

\* s without the words in front that were never written.
WithoutLeadingEmpty(s) == SubSeq(s, LeadingEmpty(s) + 1, Len(s))

\* The words that the decoder walks through, and the words it is given.
DecoderView == WithoutLeadingEmpty(SubSeq(rte_buffer, 1, in_size))

TrailerSkip ==
    check_data_at_end_of_circular_buffer(CircularImage, stream.rte_header.buffer_size)

HeadSkip == IF stream.rte_header.buffer_size_is_power_of_2 THEN 4 - TrailerSkip ELSE 0

OldestFirst ==
    Region(CircularImage, stream.rte_header.last_index,
           stream.rte_header.buffer_size - TrailerSkip)
        \o Region(CircularImage, HeadSkip, stream.rte_header.last_index)

\* C30: after the post-mortem load the decoder is given the words from
\* last_index to the end of the circular buffer without the k unused words of
\* the trailer, and behind them the words from the start of the buffer up to
\* last_index, without the first 4 - k of them when the size of the buffer
\* is a power of two.
C30_PostMortemOldestFirst ==
    PostMortemLoaded => DecoderView = WithoutLeadingEmpty(OldestFirst)

(***************************************************************************)
(* The refill of the buffer of the streaming mode.                         *)
(***************************************************************************)
\* The words of the buffer that are not decoded yet.
Undecoded == SubSeq(rte_buffer, index + 1, in_size)

\* A pass of the decoder in the streaming mode while the file is not loaded
\* completely: load_additional_data() follows the pass.
RefillStep == mpc = "decode" /\ ~stream.complete_file_loaded /\ stream' # stream

\* C31: a refill moves the words that are not decoded yet to the front of
\* the buffer and puts the words read from the file directly behind them:
\* the words that the decoder has not been given yet, those of the buffer
\* and then those of the file, are the same before and after the refill, so
\* that the decoder gets every word of the file once and in the order of the
\* file.
C31_RefillKeepsEveryWordInOrder ==
    [][RefillStep =>
          Undecoded' \o stream'.file
              = SubSeq(rte_buffer, dlast'.end_index + 1, in_size) \o stream.file]_vars

(***************************************************************************)
(* The flag no_previous_tstamp after a message with errors of its values.  *)
(***************************************************************************)
\* print_message() has printed the message of the last pass and at least one
\* of its values has saved an error.
SlotErrorsCaptured ==
    dlast.code = "DATA_FOUND" /\ dlast.values_printed /\ dlast.slot_errors # <<>>

\* process_message() has called prepare_timestamp_value() for the message of
\* the last pass: the message has a definition of its size and is not
\* MSG1_SYS_STREAMING_MODE_LOGGING.
TimestampPrepared ==
    /\ dlast.code = "DATA_FOUND"
    /\ dlast.fmt_id # topmost_fmt_id
    /\ Reports(dlast.reported, "ERR_NO_FORMATTING_DEFINITION_FOR_CODE") = 0
    /\ Reports(dlast.reported, "ERR_MSG_SIZE_DOES_NOT_MATCH_DEFINITION") = 0

\* A step of process_bin_data_worker() that gives a message to
\* process_message().
MessagePass == dlast' # dlast /\ dlast'.code = "DATA_FOUND"

\* C32 as stated: after a message with an error of one of its values the
\* flag no_previous_tstamp is set and the next message starts the scan for
\* the message LONG_TIMESTAMP; after a message without such an error the flag
\* is clear.
C32_ErrorsSetFlagNextMessageScans ==
    /\ [](dlast.code = "DATA_FOUND" =>
            (timestamp.no_previous_tstamp <=> SlotErrorsCaptured))
    /\ [][(SlotErrorsCaptured /\ MessagePass) => ScanInitiated']_vars

\* C32 amended: after a message with an error of one of its values the flag
\* is set.  A message that is given to prepare_timestamp_value() while the
\* flag is set starts the scan unless it is the message LONG_TIMESTAMP
\* itself, and leaves the flag clear unless one of its own values saves an
\* error.  A message that process_message() rejects before (no definition,
\* size that does not match) and the message STREAMING_MODE_LOGGING start no
\* scan and leave the flag as it was.
C32_ErrorsSetFlagNextPreparedMessageScans ==
    /\ [](SlotErrorsCaptured => timestamp.no_previous_tstamp)
    /\ []((TimestampPrepared /\ ~SlotErrorsCaptured) => ~timestamp.no_previous_tstamp)
    /\ [][(timestamp.no_previous_tstamp /\ MessagePass) =>
             IF TimestampPrepared'
             THEN ScanInitiated' <=> dlast'.fmt_id # 0
             ELSE /\ ~ScanInitiated'
                  /\ timestamp'.no_previous_tstamp]_vars

\* The first message was printed with an error of a value; the second one
\* has run the scan and has left the flag clear.
C32_Witness ==
    /\ dlast.cnt_before = 1
    /\ dlast.msg_errors_before > 0
    /\ dlast.no_previous_before
    /\ TimestampPrepared
    /\ ScanInitiated
    /\ ~timestamp.no_previous_tstamp

(***************************************************************************)
(* A message whose size is not the size of its definition.                 *)
(***************************************************************************)
\* The message of the last pass has a definition with a length, which is not
\* the size of the message.
SizeMismatch ==
    /\ dlast.code = "DATA_FOUND"
    /\ dlast.fmt_id < MAX_FMT_IDS
    /\ g_fmt[dlast.fmt_id] # NULL
    /\ plans[g_fmt[dlast.fmt_id]].msg_len # 0
    /\ dlast.asm_size # plans[g_fmt[dlast.fmt_id]].msg_len

SizeMismatchReported ==
    Reports(dlast.reported, "ERR_MSG_SIZE_DOES_NOT_MATCH_DEFINITION") = 1

\* C33 as stated: for a message whose size differs from the length of its
\* definition the error of the size is reported and the values that fit into
\* the message are printed.
C33_MismatchReportedValuesPrinted ==
    SizeMismatch => SizeMismatchReported /\ dlast.values_printed

\* C33 amended: for such a message the error of the size is reported, the
\* message is counted and process_message() returns: no value is printed, no
\* error of a value is saved and the timestamp of the message is not
\* processed.
C33_MismatchReportedNothingPrinted ==
    SizeMismatch =>
        /\ SizeMismatchReported
        /\ Len(dlast.reported) = 1
        /\ ~dlast.values_printed
        /\ dlast.printed = <<>>
        /\ message_cnt = dlast.cnt_before + 1
        /\ ~ScanInitiated
        /\ dlast.tstamp_branch = "none"
        /\ timestamp.old = dlast.old_before
        /\ timestamp.h = dlast.h_before
        /\ timestamp.no_previous_tstamp = dlast.no_previous_before
        /\ msg_error_counter = dlast.msg_errors_before

\* A message MSG2_C with one DATA word instead of two was reported, and a
\* value of it would have saved an error.
C33_Witness ==
    /\ SizeMismatch
    /\ SizeMismatchReported
    /\ dlast.fmt_id \in 8 .. 11
    /\ dlast.asm_size = 4
    /\ dlast.slot_errors # <<>>
    /\ ~dlast.values_printed

(***************************************************************************)
(* The end of the decoding.                                                *)
(***************************************************************************)
\* Sub-packets of MSG1_B and of a format ID without a definition with up to
\* five DATA words: the longer ones are too long.
TooLongPackets ==
    {DataWords(k) \o <<FmtWord(id, 1)>> : k \in 0 .. 5, id \in {17, 29}}

\* A full sub-packet of MSGN_L and a sub-packet behind it that continues the
\* message or, with another timestamp, does not.
Continuations ==
    {DataWords(4) \o <<FmtWord(0, 1)>> \o DataWords(k) \o <<FmtWord(0, ts)>> :
         k \in 0 .. 1, ts \in {1, 2}}

\* The worker loop runs as long as a pass is possible, on short buffers and
\* on buffers with sub-packets, full and too long ones and continuations.
InitWorker ==
    \/ InitShortStream
    \/ InitDecodeWith(PacketTable, TooLongPackets, {FALSE}, {DefaultParam}, {1, 2})
    \/ InitDecodeWith(LongTable, Continuations, {FALSE}, {DefaultParam}, {1})

SpecWorkerFair ==
    InitWorker /\ [][NextDecode(OneSlotError)]_vars /\ WF_vars(NextDecode(OneSlotError))

\* C34: every pass of the worker loop that starts in front of the end of the
\* data ends at least one word behind the word it has started at, after
\* every rewind of assemble_message(); a pass that starts at the end of the
\* data ends the loop; so the decoding of every buffer ends.
C34_EveryPassConsumesAndDecodingEnds ==
    /\ [][(mpc = "decode" /\ index < in_size) =>
            /\ dlast'.last_index = index
            /\ index < dlast'.end_index
            /\ dlast'.end_index <= in_size]_vars
    /\ [][(mpc = "decode" /\ index >= in_size) => mpc' = "return_end"]_vars
    /\ <>(mpc # "decode")

\* A too long sub-packet was reported as a bad block and the pass has gone
\* back to the words of the message at the end of it; the decoding has ended.
C34_Witness ==
    /\ mpc = "return_end"
    /\ index = in_size
    /\ error_counter["ERR_BAD_BLOCK_FOUND"] >= 1
    /\ error_counter["ERR_MESSAGE_TOO_LONG"] + error_counter["ERR_UNFINISHED_BLOCK"] >= 1
    /\ message_cnt >= 3

(***************************************************************************)
(* The buffers raw_data and assembled_msg of the assembly of a message.    *)
(***************************************************************************)
\* Runs of DATA words around the size of raw_data in front of a FMT word.
LongDataRuns ==
    {DataWords(k) \o <<FmtWord(0, 1)>> :
         k \in MAX_RAW_DATA_SIZE - 1 .. MAX_RAW_DATA_SIZE + 1}

InitAssembly ==
    \/ InitPackets
    \/ InitDecodeWith(LongTable, LongDataRuns, {FALSE}, {DefaultParam}, {1})

SpecAssembly == InitAssembly /\ [][NextDecode(OneSlotError)]_vars

\* The number of the sub-packets that the last pass has read to their FMT
\* words.
PacketsOfPass == Cardinality(FmtPositions)

\* C35: raw_data never holds more than MAX_RAW_DATA_SIZE words; a sub-packet
\* adds at most 4 DATA words to assembled_msg, the assembled message has at
\* most 4 * max_msg_blocks words, and the words that are written behind it
\* (the extended data and the terminating zero) have an index below
\* 4 * (1 + max_msg_blocks).
C35_AssemblyBuffersNotOverrun ==
    /\ Len(dlast.raw_data) <= MAX_RAW_DATA_SIZE
    /\ dlast.code \in {"DATA_FOUND", "MESSAGE_TOO_LONG"} =>
           Len(dlast.assembled) <= 4 * PacketsOfPass
    /\ Len(dlast.assembled) <= 4 * hdr_data.max_msg_blocks
    /\ asm_words <= Len(dlast.assembled) + 1
    /\ Len(assembled_msg) <= Len(dlast.assembled) + 1
    /\ Len(assembled_msg) + 1 < 4 * (1 + hdr_data.max_msg_blocks)

\* A message of two full sub-packets has filled the 8 words that
\* RTE_MAX_SUBPACKETS = 2 allows.
C35_Witness ==
    /\ dlast.code = "DATA_FOUND"
    /\ hdr_data.max_msg_blocks = 2
    /\ Len(dlast.assembled) = 4 * hdr_data.max_msg_blocks
    /\ PacketsOfPass = 2

(***************************************************************************)
(* The bounds of the buffer of the streaming mode.                         *)
(***************************************************************************)
\* The buffer is the one that load_streaming_log_data() has allocated.
StreamingBuffer == mpc # "load" /\ Len(rte_buffer) = RTEDBG_BUFFER_SIZE

\* C36: in the streaming mode 0 <= index <= in_size <= RTEDBG_BUFFER_SIZE
\* holds after every refill, and no refill writes a word behind the end of
\* the buffer of RTEDBG_BUFFER_SIZE words.
C36_RefillStaysInsideBuffer ==
    StreamingBuffer =>
        /\ 0 <= index
        /\ index <= in_size
        /\ in_size <= RTEDBG_BUFFER_SIZE
        /\ ~stream.overrun

(***************************************************************************)
(* The sizes of the two parts of the post-mortem mode.                     *)
(***************************************************************************)
\* The values of load_post_mortem_data() behind its two early returns: the
\* checked header, the words read, and the words to skip.
CheckedHeader == check_data_size(Asm, stream.rte_header, Len(stream.file))

WordsRead == load_bin_words(stream.file, stream.rte_header.buffer_size)

BufferSizeChanged ==
    CheckedHeader.buffer_size_changed
        \/ WordsRead.words_read # stream.rte_header.buffer_size

PartsComputed ==
    /\ PostMortemLoaded
    /\ ~CheckedHeader.fatal
    /\ ~(/\ WordsRead.words_read # stream.rte_header.buffer_size
         /\ CheckedHeader.last_index > WordsRead.words_read)
    /\ ~empty_data_at_end_of_buffer(WordsRead.written, CheckedHeader.last_index,
                                    WordsRead.words_read)

SkipAtEnd ==
    IF BufferSizeChanged THEN 0
    ELSE check_data_at_end_of_circular_buffer(WordsRead.written, WordsRead.words_read)

SkipAtStart ==
    IF /\ ~BufferSizeChanged
       /\ stream.rte_header.buffer_size_is_power_of_2
       /\ WordsRead.words_read > 2 * 4
    THEN 4 - SkipAtEnd ELSE 0

\* C37: when the post-mortem loader computes the sizes of its two parts, the
\* number of words to skip at the end is between 0 and 4, and neither size
\* underflows: last_index + skip_at_end <= buffer_size and
\* skip_at_start <= last_index.
C37_PartSizesDoNotUnderflow ==
    PartsComputed =>
        /\ SkipAtEnd \in 0 .. 4
        /\ CheckedHeader.last_index + SkipAtEnd <= WordsRead.words_read
        /\ SkipAtStart <= CheckedHeader.last_index

(***************************************************************************)
(* The state that a rejected directive leaves behind.                      *)
(***************************************************************************)
\* The step has parsed a directive that was rejected: catch_parsing_error()
\* has recorded an error and jumped to the landing point.
Rejected == last'.jumped /\ errors_counted' > errors_counted

\* C38: a directive that is rejected with a parse error leaves the plan table,
\* the enum table with its two counters and both format-ID cursors as they
\* were before the directive.
C38_RejectedDirectiveChangesNothing ==
    [][Rejected =>
          /\ g_fmt' = g_fmt
          /\ enums' = enums
          /\ enums_found' = enums_found
          /\ filter_enums' = filter_enums
          /\ fmt_ids_defined' = fmt_ids_defined
          /\ fmt_align_value' = fmt_align_value]_vars

(***************************************************************************)
(* The indexed text of a format string and the format-ID cursors.          *)
(***************************************************************************)
\* The step has parsed a format string whose indexed text {a|b|...} was
\* saved by save_the_indexed_text_line().
IndexedTextSaved == last'.op = "TEXT" /\ enums_found' # enums_found

\* C39: an indexed text in a format string registers one entry of the enum
\* table and changes neither fmt_ids_defined nor fmt_align_value.
C39_IndexedTextLeavesCursors ==
    [][IndexedTextSaved =>
          /\ enums_found' = enums_found + 1
          /\ enums' = [enums EXCEPT ![enums_found] =
                                        [name |-> "#Y_TEXT", type |-> "Y_TEXT_TYPE"]]
          /\ filter_enums' = filter_enums
          /\ g_fmt' = g_fmt
          /\ fmt_ids_defined' = fmt_ids_defined
          /\ fmt_align_value' = fmt_align_value]_vars

(***************************************************************************)
(* The range of the format-ID cursors.                                     *)
(***************************************************************************)
\* C40: fmt_ids_defined and fmt_align_value are never greater than topmost.
C40_CursorsInRange ==
    /\ fmt_ids_defined <= topmost_fmt_id
    /\ fmt_align_value <= topmost_fmt_id

====
